---- MODULE Spec2Model ----
(***************************************************************************)
(* Reservation / cancellation state machine, credit ledger and score       *)
(* protocol of the padel booking backend (ReservationService), with the    *)
(* database modelled as committed tables plus one write set and one lock   *)
(* set per open transaction (READ COMMITTED, row locks held to commit).    *)
(***************************************************************************)
EXTENDS Integers, Sequences, FiniteSets, Bags, TLC

VARIABLES
    db,       \* committed tables: bal, led, res, par, dispo
    tx,       \* per process: the open transaction (position, arguments, writes, locks)
    nextId,   \* reservation id sequence (not transactional)
    nextPid,  \* participant id sequence (not transactional)
    started,  \* rating tasks started so far, a bag of reservation ids
    tasks     \* the rating tasks in the order they were started, each with its progress

vars == <<db, tx, nextId, nextPid, started, tasks>>

-----------------------------------------------------------------------------
(* Bounds of the model *)

NUsers == 3
NSlots == 3
NDates == 1
NProcs == 2
MaxRes == 2
MaxPart == 3
MaxResConc == 3
MaxRows == 3
MaxTasks == 2

Users == 1..NUsers
Slots == 1..NSlots
Dates == 1..NDates
Procs == 1..NProcs

(* SQL NULL in an integer column; user, reservation and participant ids start at 1 *)
NULL == 0 - 1

-----------------------------------------------------------------------------
(* The fixture: rows of plage_horaire, utilisateur and membership that the  *)
(* reservation service reads and never creates.                            *)

\* sibling slots share (terrain_id, start_time, end_time): slots 1,2 / 3,4 / ...
Group(s) == (s + 1) \div 2
\* plage_horaire.capacity: one court instance, except slot 3 which holds two
Capacity(s) == IF s % 3 = 0 THEN 2 ELSE 1
\* plage_horaire.price
UnitPrice == 1000
Price(s) == UnitPrice
\* membership.typemmbership of the user's active membership (0 = none)
Membership(u) == CASE u = 2 -> 2 [] u = 3 -> 4 [] OTHER -> 0
\* utilisateur.credit_balance before any call
InitialBalance(u) == CASE u = 1 -> 5000 [] u = 2 -> 1000 [] u = 3 -> 1000 [] OTHER -> 0

Siblings(s) == {x \in Slots : Group(x) = Group(s)}

\* a match is played by four players
MatchSize == 4
Players == 1..MatchSize

\* utilisateur.note and the ratings computed from it are DOUBLEs: fixed point
\* here, RatingUnit to 1.0, so that hundredths of W times hundredths of a
\* percent times thirds of a percent of reliability stay whole numbers
RatingUnit == 300000000
\* utilisateur.note of a row created without a note
DefaultNote == 0
\* utilisateur.fiability, an integer percentage (20 when the row was created
\* without one, 0 for a row that was given none)
Fiability(u) == CASE u = 1 -> 100 [] u = 2 -> 20 [] u = 3 -> 0 [] OTHER -> 100

-----------------------------------------------------------------------------
(* Rows *)

\* credit_transaction.type, the audit key, as its fields
Key(k, r, u, p) == [k |-> k, r |-> r, u |-> u, p |-> p]
DebitCreatorKey(r, u) == Key("debit:reservation", r, u, 0)
DebitJoinKey(r, u, n) == Key("debit:join", r, u, n)
RefundKey(r, u, p)    == Key("refund", r, u, p)
RefundCancelKey(r)    == Key("refund:cancel", r, 0, 0)

LedgerRow(u, amount, key) == [u |-> u, amt |-> amount, key |-> key]

NoScore == [s1a |-> NULL, s1b |-> NULL, s2a |-> NULL, s2b |-> NULL,
            s3a |-> NULL, s3b |-> NULL, stb |-> 0, status |-> NULL,
            teamwin |-> NULL, submitter |-> NULL, old |-> FALSE]

EmptyFn == [x \in {} |-> 0]
Restrict(f, S) == [x \in S |-> f[x]]

NoWrites == [bal |-> EmptyFn, led |-> EmptyBag, res |-> EmptyFn,
             add |-> {}, del |-> {}, dispo |-> EmptyFn]

\* what a statement of a transaction sees: the committed rows under its own writes
View(d, w) ==
    [bal   |-> w.bal @@ d.bal,
     note  |-> d.note,
     led   |-> d.led (+) w.led,
     res   |-> w.res @@ d.res,
     par   |-> (d.par \ w.del) \cup w.add,
     dispo |-> w.dispo @@ d.dispo]

\* the writes that turn the committed rows d into the view v
Diff(d, v) ==
    [bal   |-> Restrict(v.bal, {u \in DOMAIN v.bal : v.bal[u] # d.bal[u]}),
     led   |-> v.led (-) d.led,
     res   |-> Restrict(v.res, {r \in DOMAIN v.res :
                                   r \notin DOMAIN d.res \/ v.res[r] # d.res[r]}),
     add   |-> v.par \ d.par,
     del   |-> d.par \ v.par,
     dispo |-> Restrict(v.dispo, {s \in DOMAIN v.dispo : v.dispo[s] # d.dispo[s]})]

Rows(v) == BagToSet(v.led)
PartsOf(v, r) == {p \in v.par : p.res = r}
Min(S) == CHOOSE x \in S : \A y \in S : x <= y

-----------------------------------------------------------------------------
(* Credit ledger *)

logCreditTransaction(v, u, amount, key) ==
    [v EXCEPT !.led = @ (+) SetToBag({LedgerRow(u, amount, key)})]

HasRow(v, u, key) == \E row \in Rows(v) : row.u = u /\ row.key = key

\* the value refundUserIdempotent returns
refundReturns(v, u, amount, r, pid) ==
    amount > 0 /\ ~HasRow(v, u, RefundKey(r, u, pid))

\* a refund without the duplicate check
refundUserIdempotent_NoDuplicateCheck(v, u, amount, r, pid) ==
    IF amount <= 0 THEN v
    ELSE logCreditTransaction([v EXCEPT !.bal[u] = @ + amount],
                              u, amount, RefundKey(r, u, pid))
refundUserIdempotent(v, u, amount, r, pid) ==
    IF amount <= 0 THEN v
    ELSE IF HasRow(v, u, RefundKey(r, u, pid)) THEN v
    ELSE logCreditTransaction([v EXCEPT !.bal[u] = @ + amount],
                              u, amount, RefundKey(r, u, pid))

\* the rows the "did this user pay" query matches: the creator debit of the
\* reservation or any join debit of it, with a negative amount
DebitsOf(v, u, r) ==
    {row \in Rows(v) : /\ row.u = u
                       /\ row.amt < 0
                       /\ row.key.r = r /\ row.key.u = u
                       /\ row.key.k \in {"debit:reservation", "debit:join"}}

-----------------------------------------------------------------------------
(* Capacity *)

ValidOn(v, S, d) ==
    {r \in DOMAIN v.res : /\ v.res[r].slot \in S /\ v.res[r].date = d
                          /\ v.res[r].isCancel = 0 /\ v.res[r].etat = 1}

PendingOn(v, S, d) ==
    {r \in DOMAIN v.res : /\ v.res[r].slot \in S /\ v.res[r].date = d
                          /\ v.res[r].isCancel = 0 /\ v.res[r].etat = 0}

\* a capacity check that counts the PENDING reservations instead of the VALID
hasAvailableCapacity_CountsPending(v, s, d) ==
    Cardinality(PendingOn(v, {s}, d)) < Capacity(s)
hasAvailableCapacity(v, s, d) == Cardinality(ValidOn(v, {s}, d)) < Capacity(s)

-----------------------------------------------------------------------------
(* Cancelling competing reservations *)

RECURSIVE RefundWhoPaid(_, _, _)
\* "Refund each user who paid": prix_total to every user of the set with a debit
RefundWhoPaid(v, r, us) ==
    IF us = {} THEN v
    ELSE LET u  == Min(us)
             v1 == IF DebitsOf(v, u, r) # {}
                   THEN refundUserIdempotent(v, u, v.res[r].prix, r,
                                             IF u = v.res[r].user THEN NULL ELSE u)
                   ELSE v
         IN  RefundWhoPaid(v1, r, us \ {u})

UsersToRefund(v, r) == {v.res[r].user} \cup {p.user : p \in PartsOf(v, r)}

\* one turn of the loop of cancelExcessPendingReservations
CancelPendingReservation(v, r) ==
    LET v1 == [v EXCEPT !.res[r].isCancel = 1, !.res[r].etat = 0 - 1,
                        !.res[r].score.old = FALSE]
        v2 == RefundWhoPaid(v1, r, UsersToRefund(v, r))
    IN  [v2 EXCEPT !.par = @ \ PartsOf(v, r)]

RECURSIVE CancelEachPending(_, _)
CancelEachPending(v, rs) ==
    IF rs = {} THEN v
    ELSE CancelEachPending(CancelPendingReservation(v, Min(rs)), rs \ {Min(rs)})

\* the pending reservations cancelExcessPendingReservations cancels: all of the
\* sibling group once the VALID count reaches the number of sibling slots
ExcessPending(v, s, d) ==
    LET totalCapacity == Cardinality(Siblings(s))
        validReservations == Cardinality(ValidOn(v, Siblings(s), d))
    IN  IF validReservations >= totalCapacity
        THEN PendingOn(v, Siblings(s), d) ELSE {}

cancelExcessPendingReservations(v, s, d) ==
    CancelEachPending(v, ExcessPending(v, s, d))

\* one turn of the loop of handleValidMatchCreated
CancelValidReservation(v, r) ==
    LET v1 == [v EXCEPT !.res[r].isCancel = 1, !.res[r].etat = 0 - 1,
                        !.res[r].score.old = FALSE]
        v2 == RefundWhoPaid(v1, r, UsersToRefund(v, r))
    IN  [v2 EXCEPT !.par = @ \ PartsOf(v, r)]

RECURSIVE CancelEachValid(_, _)
CancelEachValid(v, rs) ==
    IF rs = {} THEN v
    ELSE CancelEachValid(CancelValidReservation(v, Min(rs)), rs \ {Min(rs)})

\* the reservations handleValidMatchCreated cancels for the new VALID one
\* a selection that takes the VALID reservations of every type
ValidToCancel_AnyType(v, s, d, newId) ==
    {r \in ValidOn(v, Siblings(s), d) : r # newId}

ValidToCancel(v, s, d, newId) ==
    {r \in ValidOn(v, Siblings(s), d) :
        /\ r # newId
        /\ (v.res[newId].typer = 2 => v.res[r].typer = 2)}

handleValidMatchCreated(v, s, d, newId) ==
    IF newId \notin DOMAIN v.res THEN v
    ELSE CancelEachValid(v, ValidToCancel(v, s, d, newId))

-----------------------------------------------------------------------------
(* Transactions: row locks and write sets *)

LockU(u) == <<"u", u>>
LockS(s) == <<"s", s>>
LockR(r) == <<"r", r>>

NoArgs == [u |-> 0, s |-> 0, d |-> 0, typer |-> 0, pay |-> 0, etat |-> 0,
           pfa |-> FALSE, r |-> 0, sc |-> 0, amt |-> 0, pid |-> 0, mins |-> 0,
           cop |-> "none", cur |-> 0, idx |-> 0, ga |-> 0, gb |-> 0, stb |-> FALSE,
           md |-> <<>>]

Idle == [pc |-> "idle", op |-> "none", a |-> NoArgs, wr |-> NoWrites,
         locks |-> {}, plage |-> 0, rid |-> 0, out |-> "none"]

HeldByOthers(p) == UNION {tx[q].locks : q \in Procs \ {p}}
\* reads that take no row lock and so never wait
CanLock_NeverWaits(p, L) == TRUE
\* SELECT ... FOR UPDATE waits while another transaction holds one of the rows
CanLock(p, L) == L \cap HeldByOthers(p) = {}

MyView(p) == View(db, tx[p].wr)

\* sequelize.transaction(): a call opens its transaction
Begin(p, op, a, pc) ==
    /\ tx[p].pc \in {"idle", "done"}
    /\ tx' = [tx EXCEPT ![p] = [Idle EXCEPT !.pc = pc, !.op = op, !.a = a]]

\* a step of the open transaction: lock L, leave the view v, go to pc
Step(p, L, v, pc) ==
    tx' = [tx EXCEPT ![p].locks = @ \cup L, ![p].wr = Diff(db, v), ![p].pc = pc]

\* what a finished call leaves behind: its result, when the caller keeps it
Finished(p, out, rid, keep) ==
    IF keep THEN [Idle EXCEPT !.pc = "done", !.op = tx[p].op, !.a = tx[p].a,
                              !.rid = rid, !.out = out]
    ELSE Idle

\* t.commit(): the writes become the committed rows, the locks are released
Commit(p, v, out, rid, keep) ==
    /\ db' = v
    /\ tx' = [tx EXCEPT ![p] = Finished(p, out, rid, keep)]

\* a rollback that keeps what the transaction wrote
Rollback_KeepsWrites(p, out, keep) ==
    /\ db' = MyView(p)
    /\ tx' = [tx EXCEPT ![p] = Finished(p, out, 0, keep)]

\* t.rollback(): the writes are dropped, the locks are released
Rollback(p, out, keep) ==
    /\ db' = db
    /\ tx' = [tx EXCEPT ![p] = Finished(p, out, 0, keep)]

-----------------------------------------------------------------------------
(* create *)

\* STEP 2: lock the user row
CreateLockUser(p) ==
    /\ tx[p].pc = "c_user"
    /\ CanLock(p, {LockU(tx[p].a.u)})
    /\ Step(p, {LockU(tx[p].a.u)}, MyView(p), "c_slot")
    /\ UNCHANGED <<db, nextId, nextPid, started, tasks>>

\* STEP 3: lock the requested plage_horaire row
CreateLockSlot(p) ==
    /\ tx[p].pc = "c_slot"
    /\ CanLock(p, {LockS(tx[p].a.s)})
    /\ tx' = [tx EXCEPT ![p].locks = @ \cup {LockS(tx[p].a.s)},
                        ![p].plage = tx[p].a.s, ![p].pc = "c_check"]
    /\ UNCHANGED <<db, nextId, nextPid, started, tasks>>

\* the rows hasAvailableCapacity locks: the VALID reservations of the slots
CapacityLocks(v, S, d) == {LockR(r) : r \in ValidOn(v, S, d)}

\* STEP 4: capacity of the requested slot
CreateCheck(p) ==
    LET a == tx[p].a
        v == MyView(p)
        L == CapacityLocks(v, {a.s}, a.d)
    IN  /\ tx[p].pc = "c_check"
        /\ CanLock(p, L)
        /\ Step(p, L, v, IF hasAvailableCapacity(v, a.s, a.d) THEN "c_pay" ELSE "c_sib")
        /\ UNCHANGED <<db, nextId, nextPid, started, tasks>>

\* a switch to any sibling, full or not
FreeSiblings_Any(v, s, d) == Siblings(s) \ {s}
\* the siblings the reassignment loop may switch to: the query has no ORDER BY,
\* the first row with capacity is any of them
FreeSiblings(v, s, d) == {x \in Siblings(s) \ {s} : hasAvailableCapacity(v, x, d)}

\* STEP 4, slot at capacity: lock the siblings, switch to the first free one
CreateSiblings(p, keep) ==
    LET a == tx[p].a
        v == MyView(p)
        sibs == Siblings(a.s) \ {a.s}
        L == {LockS(x) : x \in sibs} \cup CapacityLocks(v, sibs, a.d)
        free == FreeSiblings(v, a.s, a.d)
    IN  /\ tx[p].pc = "c_sib"
        /\ CanLock(p, L)
        /\ IF free # {}
           THEN /\ \E x \in free :
                      tx' = [tx EXCEPT ![p].locks = @ \cup L,
                                       ![p].plage = x, ![p].pc = "c_pay"]
                /\ db' = db
           ELSE Rollback(p, "slot_full", keep)
        /\ UNCHANGED <<nextId, nextPid, started, tasks>>

\* STEP 5: the price of the selected slot, 1 when it is not a positive number
normalizedPrice(plage) == IF Price(plage) > 0 THEN Price(plage) ELSE 1

\* STEP 7: payment detection
isOnsitePayment(a) == a.pay = 2 \/ a.etat = 0
shouldSkipDeduction(a) == a.typer = 1 /\ isOnsitePayment(a)
isPrivateWithCredit(a) == a.typer = 1 /\ a.pay = 1

\* the user's participations in non-cancelled reservations of the date
DailyCount(v, u, d) ==
    Cardinality({q \in v.par : /\ q.user = u
                               /\ v.res[q.res].date = d
                               /\ v.res[q.res].isCancel = 0})

\* INFINITY (4) is downgraded to none once the user has a match on the date
membershipType(v, a) ==
    IF Membership(a.u) = 4 /\ DailyCount(v, a.u, a.d) > 0 THEN 0 ELSE Membership(a.u)

MembershipDiscount == 300
membershipDiscount(v, a) == IF membershipType(v, a) \in {1, 2, 3} THEN MembershipDiscount ELSE 0

\* a creator charge that knows no membership
creatorCharge_NoMembership(v, a, plage) ==
    IF ~shouldSkipDeduction(a) THEN normalizedPrice(plage) ELSE 0

creatorCharge(v, a, plage) ==
    IF ~shouldSkipDeduction(a) /\ membershipType(v, a) # 4
    THEN IF normalizedPrice(plage) - membershipDiscount(v, a) < 0 THEN 0
         ELSE normalizedPrice(plage) - membershipDiscount(v, a)
    ELSE 0

\* the amount the balance check compares and deducts
totalCharge(v, a, plage) ==
    IF a.pfa /\ ~shouldSkipDeduction(a)
    THEN creatorCharge(v, a, plage) + 3 * normalizedPrice(plage)
    ELSE creatorCharge(v, a, plage)

\* totalChargeToDeduct as the insert sees it: 0 when nothing was deducted
totalChargeToDeduct(v, a, plage) ==
    IF ~shouldSkipDeduction(a) /\ totalCharge(v, a, plage) > 0
    THEN totalCharge(v, a, plage) ELSE 0

NewReservation(a, plage, total) ==
    [slot |-> plage, date |-> a.d, user |-> a.u, typer |-> a.typer,
     etat |-> a.etat, isCancel |-> 0,
     prix |-> IF a.pfa THEN total ELSE normalizedPrice(plage),
     ispayed |-> IF a.pfa THEN 1 ELSE 0,
     score |-> NoScore]

\* STEP 9: the reservation row and, when something was charged, the debit row
InsertReservation(v, a, plage, total, id) ==
    LET v1 == [v EXCEPT !.res = (id :> NewReservation(a, plage, total)) @@ @]
    IN  IF total > 0
        THEN logCreditTransaction(v1, a.u, 0 - total, DebitCreatorKey(id, a.u))
        ELSE v1

\* STEP 11: the slot's availability flag
MarkSlot(v, a, plage) ==
    IF a.typer = 1 /\ ~isOnsitePayment(a)
    THEN [v EXCEPT !.dispo[plage] = FALSE]
    ELSE IF a.typer # 2 /\ ~isOnsitePayment(a) /\ ~hasAvailableCapacity(v, plage, a.d)
    THEN [v EXCEPT !.dispo[plage] = FALSE]
    ELSE v

\* STEP 12: the creator's participant row
CreatorParticipant(a, id, pid) ==
    [id |-> pid, res |-> id, user |-> a.u, creator |-> TRUE,
     state |-> IF shouldSkipDeduction(a) THEN 0 ELSE 1,
     type |-> IF shouldSkipDeduction(a) THEN 2 ELSE 1,
     team |-> 0]

\* STEPS 11 to 13
CreateFinish(p, v, id, keep) ==
    LET a  == tx[p].a
        v1 == MarkSlot(v, a, tx[p].plage)
        v2 == [v1 EXCEPT !.par = @ \cup {CreatorParticipant(a, id, nextPid)}]
    IN  /\ Commit(p, v2, "ok", id, keep)
        /\ nextPid' = nextPid + 1

\* what the surroundings decide for a call: the rating range of the request is
\* invalid (bad), a notification fails (nf)
Env(bad, nf) == [bad |-> bad, nf |-> nf]
Smooth == {Env(FALSE, FALSE)}
Rough == {Env(FALSE, FALSE), Env(TRUE, FALSE), Env(FALSE, TRUE)}

\* a payment step without the balance check
insufficientFunds_NeverChecked(v, a, total) == FALSE
\* STEP 7: the balance of the locked user row does not cover the charge
insufficientFunds(v, a, total) == total > 0 /\ v.bal[a.u] < total

\* STEPS 5 to 9: price, rating range, payment, final capacity check, insert
CreatePay(p, E, keep) ==
    LET a     == tx[p].a
        v     == MyView(p)
        plage == tx[p].plage
        total == totalChargeToDeduct(v, a, plage)
        v1    == [v EXCEPT !.bal[a.u] = @ - total]
        v2    == InsertReservation(v1, a, plage, total, nextId)
        L     == CapacityLocks(v, {plage}, a.d)
    IN  /\ tx[p].pc = "c_pay"
        /\ CanLock(p, L)
        /\ UNCHANGED <<started, tasks>>
        /\ \E e \in E :
           IF a.typer = 2 /\ e.bad
           THEN Rollback(p, "invalid_range", keep) /\ UNCHANGED <<nextId, nextPid>>
           ELSE IF insufficientFunds(v, a, total)
           THEN Rollback(p, "insufficient_funds", keep) /\ UNCHANGED <<nextId, nextPid>>
           ELSE IF ~hasAvailableCapacity(v1, plage, a.d)
           THEN Rollback(p, "just_taken", keep) /\ UNCHANGED <<nextId, nextPid>>
           ELSE /\ nextId' = nextId + 1
                /\ IF e.nf
                   THEN Rollback(p, "notification_failed", keep) /\ UNCHANGED nextPid
                   ELSE IF isPrivateWithCredit(a)
                   THEN /\ tx' = [tx EXCEPT ![p].locks = @ \cup L,
                                            ![p].wr = Diff(db, v2),
                                            ![p].rid = nextId, ![p].pc = "c_excess"]
                        /\ UNCHANGED <<db, nextPid>>
                   ELSE CreateFinish(p, v2, nextId, keep)

\* STEP 9 fails: reservation.create or credit_transaction.create throws, with
\* or without a value of the id sequence used up
CreateInsertFail(p, keep) ==
    LET a     == tx[p].a
        v     == MyView(p)
        plage == tx[p].plage
        total == totalChargeToDeduct(v, a, plage)
        v1    == [v EXCEPT !.bal[a.u] = @ - total]
    IN  /\ tx[p].pc = "c_pay"
        /\ CanLock(p, CapacityLocks(v, {plage}, a.d))
        /\ ~insufficientFunds(v, a, total)
        /\ hasAvailableCapacity(v1, plage, a.d)
        /\ Rollback(p, "insert_failed", keep)
        /\ \E n \in {nextId, nextId + 1} : nextId' = n
        /\ UNCHANGED <<nextPid, started, tasks>>

\* STEP 10 fails: cancelExcessPendingReservations rethrows what it caught
CreateExcessFail(p, keep) ==
    /\ tx[p].pc = "c_excess"
    /\ Rollback(p, "excess_failed", keep)
    /\ UNCHANGED <<nextId, nextPid, started, tasks>>

\* the user rows the refunds of the cancelled reservations lock
RefundLocks(v, rs) ==
    {LockU(u) : u \in {x \in Users : \E r \in rs :
                          x \in UsersToRefund(v, r) /\ DebitsOf(v, x, r) # {}}}

\* STEP 10 (VALID private match), then STEPS 11 to 13
CreateExcess(p, keep) ==
    LET a  == tx[p].a
        v  == MyView(p)
        rs == ExcessPending(v, tx[p].plage, a.d)
        L  == {LockR(r) : r \in rs} \cup RefundLocks(v, rs)
    IN  /\ tx[p].pc = "c_excess"
        /\ CanLock(p, L)
        /\ CreateFinish(p, cancelExcessPendingReservations(v, tx[p].plage, a.d),
                        tx[p].rid, keep)
        /\ UNCHANGED <<nextId, started, tasks>>

CreateArgs(US, SS, PFA) ==
    {[NoArgs EXCEPT !.u = u, !.s = s, !.d = d, !.typer = t, !.pay = y, !.etat = e,
                    !.pfa = f] :
        u \in US, s \in SS, d \in Dates, t \in {1, 2}, y \in {1, 2}, e \in {0, 1},
        f \in PFA}

\* a caller starts create(data)
CreateStart(p, A, maxRes) ==
    /\ nextId <= maxRes
    /\ nextPid <= MaxPart
    /\ \E a \in A : Begin(p, "create", a, "c_user")
    /\ UNCHANGED <<db, nextId, nextPid, started, tasks>>

-----------------------------------------------------------------------------
(* cancel *)

\* minutes from now to reservation.date when cancel reads the clock
MinutesAhead == {0 - 60, 23 * 60, 24 * 60 + 30, 25 * 60}

\* the 24-hour policy check: hoursUntilMatch <= 24 for a match still ahead
TooLateToCancel(mins) == mins > 0 /\ (mins \div 60) <= 24

\* now = new Date(): a caller that keeps the record of the call keeps the
\* reading of the clock with it
Clocked(t, mins, keep) == IF keep THEN [t EXCEPT !.a.mins = mins] ELSE t

isCancellerCreator(v, r, u) == \E q \in PartsOf(v, r) : q.creator /\ q.user = u

\* a refund that credits the balance and appends no ledger row
refundUser_NoLedgerRow(v, u, amount, r) ==
    IF amount <= 0 THEN v ELSE [v EXCEPT !.bal[u] = @ + amount]
\* the refund helper of cancel
refundUser(v, u, amount, r) ==
    IF amount <= 0 THEN v
    ELSE logCreditTransaction([v EXCEPT !.bal[u] = @ + amount],
                              u, amount, RefundCancelKey(r))

\* the participants cancel refunds: payment state PAID and a debit found
PaidWithDebit(v, r, qs) ==
    {q.user : q \in {x \in qs : x.state = 1 /\ DebitsOf(v, x.user, r) # {}}}

\* findOne returns one of the matching debit rows
DebitChoices(v, r, us) ==
    {f \in [us -> Rows(v)] : \A u \in us : f[u] \in DebitsOf(v, u, r)}

RECURSIVE RefundDebits_SlotPrice(_, _, _, _)
\* refunds of the price of the slot instead of the amount debited
RefundDebits_SlotPrice(v, r, us, f) ==
    IF us = {} THEN v
    ELSE LET u == Min(us)
         IN  RefundDebits_SlotPrice(refundUser(v, u, Price(v.res[r].slot), r), r, us \ {u}, f)

RECURSIVE RefundDebits(_, _, _, _)
RefundDebits(v, r, us, f) ==
    IF us = {} THEN v
    ELSE LET u == Min(us)
         IN  RefundDebits(refundUser(v, u, 0 - f[u].amt, r), r, us \ {u}, f)

\* a creator cancel that leaves the availability flag of the slot alone
CancelByCreator_FlagUntouched(v, r, f) ==
    LET v1 == RefundDebits(v, r, DOMAIN f, f)
        v2 == [v1 EXCEPT !.res[r].isCancel = 1, !.res[r].etat = 3,
                         !.res[r].score.old = FALSE]
    IN  [v2 EXCEPT !.par = @ \ PartsOf(v, r)]

\* creator branch: refund everyone, cancel, drop the participants, free the slot
CancelByCreator(v, r, f) ==
    LET res == v.res[r]
        v1  == RefundDebits(v, r, DOMAIN f, f)
        v2  == [v1 EXCEPT !.res[r].isCancel = 1, !.res[r].etat = 3,
                          !.res[r].score.old = FALSE]
        v3  == [v2 EXCEPT !.par = @ \ PartsOf(v, r)]
    IN  IF hasAvailableCapacity(v3, res.slot, res.date)
        THEN [v3 EXCEPT !.dispo[res.slot] = TRUE]
        ELSE v3

\* a participant branch that drops every participant row of the reservation
CancelByParticipant_DropsAll(v, r, u, f) ==
    LET res == v.res[r]
        v1  == RefundDebits(v, r, DOMAIN f, f)
        v2  == [v1 EXCEPT !.par = @ \ PartsOf(v, r)]
    IN  IF res.etat = 1
        THEN [v2 EXCEPT !.res[r].etat = 0, !.res[r].score.old = FALSE,
                        !.dispo[res.slot] = TRUE]
        ELSE [v2 EXCEPT !.res[r].score.old = FALSE]

\* participant branch: refund the canceller, drop the row, revert to pending
CancelByParticipant(v, r, u, f) ==
    LET res == v.res[r]
        v1  == RefundDebits(v, r, DOMAIN f, f)
        v2  == [v1 EXCEPT !.par = {q \in @ : ~(q.res = r /\ q.user = u)}]
        remainingParticipants == Cardinality(PartsOf(v2, r))
    IN  IF res.etat = 1 /\ remainingParticipants < 4
        THEN [v2 EXCEPT !.res[r].etat = 0, !.res[r].score.old = FALSE,
                        !.dispo[res.slot] = TRUE]
        ELSE [v2 EXCEPT !.res[r].score.old = FALSE]

\* a cancel that does not look at isCancel
CancelLockReservation_NoShortCircuit(p, M, keep) ==
    LET a == tx[p].a
        v == MyView(p)
    IN  /\ tx[p].pc = "k_res"
        /\ CanLock(p, {LockR(a.r)})
        /\ UNCHANGED <<nextId, nextPid, started, tasks>>
        /\ IF a.r \notin DOMAIN v.res
           THEN Rollback(p, "not_found", keep)
           ELSE \E mins \in M :
                   /\ db' = db
                   /\ tx' = [tx EXCEPT ![p] =
                         IF TooLateToCancel(mins)
                         THEN Clocked(Finished(p, "too_late", 0, keep), mins, keep)
                         ELSE Clocked([tx[p] EXCEPT !.locks = @ \cup {LockR(a.r)},
                                                    !.wr = Diff(db, v), !.pc = "k_slot"],
                                      mins, keep)]

\* lock the reservation; already cancelled: return it; 24-hour policy
CancelLockReservation(p, M, keep) ==
    LET a == tx[p].a
        v == MyView(p)
    IN  /\ tx[p].pc = "k_res"
        /\ CanLock(p, {LockR(a.r)})
        /\ UNCHANGED <<nextId, nextPid, started, tasks>>
        /\ IF a.r \notin DOMAIN v.res
           THEN Rollback(p, "not_found", keep)
           ELSE IF v.res[a.r].isCancel = 1
           THEN Commit(p, db, "already_cancelled", a.r, keep)
           ELSE \E mins \in M :
                   /\ db' = db
                   /\ tx' = [tx EXCEPT ![p] =
                         IF TooLateToCancel(mins)
                         THEN Clocked(Finished(p, "too_late", 0, keep), mins, keep)
                         ELSE Clocked([tx[p] EXCEPT !.locks = @ \cup {LockR(a.r)},
                                                    !.wr = Diff(db, v), !.pc = "k_slot"],
                                      mins, keep)]

\* lock the slot of the reservation
CancelLockSlot(p) ==
    /\ tx[p].pc = "k_slot"
    /\ CanLock(p, {LockS(MyView(p).res[tx[p].a.r].slot)})
    /\ Step(p, {LockS(MyView(p).res[tx[p].a.r].slot)}, MyView(p), "k_body")
    /\ UNCHANGED <<db, nextId, nextPid, started, tasks>>

\* the rows the body of cancel locks: the users it refunds and, for the
\* creator, the VALID reservations of the slot
CancelBodyLocks(v, a) ==
    LET qs == PartsOf(v, a.r)
        byCreator == isCancellerCreator(v, a.r, a.u)
    IN  {LockU(u) : u \in PaidWithDebit(v, a.r, IF byCreator THEN qs
                                                 ELSE {q \in qs : q.user = a.u})}
        \cup (IF byCreator
              THEN CapacityLocks(v, {v.res[a.r].slot}, v.res[a.r].date) ELSE {})

\* the participants are read; refunds, state change, notifications, commit
CancelBody(p, E, keep) ==
    LET a  == tx[p].a
        v  == MyView(p)
        qs == PartsOf(v, a.r)
        byCreator == isCancellerCreator(v, a.r, a.u)
        mine == {q \in qs : q.user = a.u}
        us == IF byCreator THEN PaidWithDebit(v, a.r, qs) ELSE PaidWithDebit(v, a.r, mine)
        others == {q \in qs : q.user # a.u}
        L  == CancelBodyLocks(v, a)
    IN  /\ tx[p].pc = "k_body"
        /\ CanLock(p, L)
        /\ UNCHANGED <<nextId, nextPid, started, tasks>>
        /\ IF ~byCreator /\ mine = {}
           THEN Rollback(p, "not_participant", keep)
           ELSE \E e \in E :
                IF e.nf /\ others # {}
                THEN Rollback(p, "notification_failed", keep)
                ELSE \E f \in DebitChoices(v, a.r, us) :
                   Commit(p, IF byCreator THEN CancelByCreator(v, a.r, f)
                             ELSE CancelByParticipant(v, a.r, a.u, f),
                          "ok", a.r, keep)

CancelArgs(US) ==
    {[NoArgs EXCEPT !.u = u, !.r = r] : u \in US, r \in DOMAIN db.res}

\* a caller starts cancel(id, cancellingUserId)
CancelStart(p, A) ==
    /\ \E a \in A : Begin(p, "cancel", a, "k_res")
    /\ UNCHANGED <<db, nextId, nextPid, started, tasks>>

-----------------------------------------------------------------------------
(* processStatusRefunds *)

\* slotPriceOf: the price of the slot, 0 when it is not a positive number
slotPriceOf(v, r) == IF Price(v.res[r].slot) > 0 THEN Price(v.res[r].slot) ELSE 0

RECURSIVE RefundParticipants(_, _, _)
\* the slot price to each PAID participant, keyed by the participant row
RefundParticipants(v, r, qs) ==
    IF qs = {} THEN v
    ELSE LET q == CHOOSE x \in qs : \A y \in qs : x.id <= y.id
         IN  RefundParticipants(
                 IF q.state = 1
                 THEN refundUserIdempotent(v, q.user, slotPriceOf(v, r), r, q.id)
                 ELSE v,
                 r, qs \ {q})

\* one turn of the refund loop: a pending reservation that has participants
RefundPendingReservation(v, r) ==
    IF v.res[r].etat = 0 /\ PartsOf(v, r) # {}
    THEN [RefundParticipants(v, r, PartsOf(v, r)) EXCEPT !.par = @ \ PartsOf(v, r)]
    ELSE v

RECURSIVE RefundEachPending(_, _)
RefundEachPending(v, rs) ==
    IF rs = {} THEN v
    ELSE RefundEachPending(RefundPendingReservation(v, Min(rs)), rs \ {Min(rs)})

NotCancelled(v) == {r \in DOMAIN v.res : v.res[r].isCancel = 0}

ProcessStart(p) ==
    /\ Begin(p, "processStatusRefunds", NoArgs, "r_lock")
    /\ UNCHANGED <<db, nextId, nextPid, started, tasks>>

\* findAll({isCancel: 0}) FOR UPDATE
ProcessLock(p) ==
    /\ tx[p].pc = "r_lock"
    /\ CanLock(p, {LockR(r) : r \in NotCancelled(MyView(p))})
    /\ Step(p, {LockR(r) : r \in NotCancelled(MyView(p))}, MyView(p), "r_body")
    /\ UNCHANGED <<db, nextId, nextPid, started, tasks>>

\* the refund loop and the commit
ProcessBody(p, keep) ==
    LET v  == MyView(p)
        rs == {r \in DOMAIN v.res : LockR(r) \in tx[p].locks}
        L  == {LockU(q.user) : q \in {x \in v.par : x.res \in rs /\ x.state = 1
                                                     /\ v.res[x.res].etat = 0}}
    IN  /\ tx[p].pc = "r_body"
        /\ CanLock(p, L)
        /\ Commit(p, RefundEachPending(v, rs), "ok", 0, keep)
        /\ UNCHANGED <<nextId, nextPid, started, tasks>>

-----------------------------------------------------------------------------
(* A reservation becomes VALID outside create: handleValidMatchCreated runs  *)
(* in the transaction of its caller.                                         *)

HandleValidMatchCreated(p, keep) ==
    \E newId \in UNION {ValidOn(db, Slots, d0) : d0 \in Dates} :
        LET v  == db
            s  == v.res[newId].slot
            d  == v.res[newId].date
            rs == ValidToCancel(v, s, d, newId)
            L  == {LockS(x) : x \in Siblings(s)} \cup {LockR(r) : r \in rs}
                  \cup RefundLocks(v, rs)
        IN  /\ tx[p].pc \in {"idle", "done"}
            /\ CanLock(p, L)
            /\ db' = handleValidMatchCreated(v, s, d, newId)
            /\ tx' = [tx EXCEPT ![p] =
                        IF keep THEN [Idle EXCEPT !.pc = "done", !.op = "handleValidMatchCreated",
                                                  !.a.r = newId, !.rid = newId, !.out = "ok"]
                        ELSE Idle]
            /\ UNCHANGED <<nextId, nextPid, started, tasks>>

-----------------------------------------------------------------------------
(* A player joins a reservation (participant service): a participant row on  *)
(* the smallest free team seat and, for a credit payment of a match that is  *)
(* not prepaid for all, a debit of the reservation's price.                  *)

FreeSeats(v, r) == (0..3) \ {q.team : q \in PartsOf(v, r)}

joinCharge(v, r, pay) == IF pay = 1 /\ v.res[r].ispayed = 0 THEN v.res[r].prix ELSE 0

JoinParticipant(v, r, u, pay, pid) ==
    [id |-> pid, res |-> r, user |-> u, creator |-> FALSE,
     state |-> IF pay = 1 THEN 1 ELSE 0, type |-> pay, team |-> Min(FreeSeats(v, r))]

join(v, r, u, pay, pid) ==
    LET charge == joinCharge(v, r, pay)
        v1 == IF charge > 0
              THEN logCreditTransaction([v EXCEPT !.bal[u] = @ - charge],
                                        u, 0 - charge, DebitJoinKey(r, u, pid))
              ELSE v
    IN  [v1 EXCEPT !.par = @ \cup {JoinParticipant(v, r, u, pay, pid)}]

Join(p, US, keep) ==
    \E u \in US, r \in DOMAIN db.res, pay \in {1, 2} :
        /\ tx[p].pc \in {"idle", "done"}
        /\ nextPid <= MaxPart
        /\ CanLock(p, {LockR(r), LockU(u)})
        /\ db.res[r].isCancel = 0
        /\ FreeSeats(db, r) # {}
        /\ \A q \in PartsOf(db, r) : q.user # u
        /\ db.bal[u] >= joinCharge(db, r, pay)
        /\ db' = join(db, r, u, pay, nextPid)
        /\ nextPid' = nextPid + 1
        /\ tx' = [tx EXCEPT ![p] =
                    IF keep THEN [Idle EXCEPT !.pc = "done", !.op = "join", !.a.u = u,
                                              !.a.r = r, !.a.pay = pay, !.rid = r,
                                              !.out = "ok"]
                    ELSE Idle]
        /\ UNCHANGED <<nextId, started, tasks>>

-----------------------------------------------------------------------------
(* Rating engine *)

\* RATING_DIFF_TABLE: the bounds of X and W, in hundredths
Row(min, max, W) == [min |-> min, max |-> max, W |-> W]
RATING_DIFF_TABLE ==
    <<Row(96, 350, 2), Row(86, 95, 3), Row(76, 85, 5), Row(66, 75, 8),
      Row(56, 65, 11), Row(46, 55, 15), Row(36, 45, 20), Row(26, 35, 26),
      Row(16, 25, 33), Row(5, 15, 41), Row(0 - 6, 5, 50), Row(0 - 16, 0 - 6, 60),
      Row(0 - 25, 0 - 16, 70), Row(0 - 36, 0 - 26, 85), Row(0 - 46, 0 - 36, 100),
      Row(0 - 56, 0 - 46, 120), Row(0 - 66, 0 - 56, 140), Row(0 - 76, 0 - 66, 170),
      Row(0 - 86, 0 - 76, 200), Row(0 - 96, 0 - 86, 240), Row(0 - 350, 0 - 96, 280)>>

\* one hundredth of a rating point
Hundredth == RatingUnit \div 100

\* X >= row.min && X <= row.max
InRow(X, row) == X >= row.min * Hundredth /\ X <= row.max * Hundredth

RECURSIVE lookupWFrom(_, _)
\* the walk over the table from row i on, then the fallbacks
lookupWFrom(X, i) ==
    IF i > Len(RATING_DIFF_TABLE)
    THEN IF X > 350 * Hundredth THEN 2
         ELSE IF X < (0 - 350) * Hundredth THEN 280
         ELSE 50
    ELSE IF InRow(X, RATING_DIFF_TABLE[i]) THEN RATING_DIFF_TABLE[i].W
    ELSE lookupWFrom(X, i + 1)

\* a lookup by the size of the difference, whichever team is ahead
lookupW_Magnitude(X) == lookupWFrom(IF X < 0 THEN 0 - X ELSE X, 1)
\* W, in hundredths, for the rating difference X
lookupW(X) == lookupWFrom(X, 1)

\* POINTS_ADJUSTMENT for 0 to 19 points, in hundredths of a percent
POINTS_ADJUSTMENT ==
    <<10000, 9737, 9474, 9211, 8947, 8684, 8421, 8158, 7895, 7632,
      7368, 7105, 6842, 6579, 6316, 6053, 5789, 5526, 5263, 5000>>

\* pointsScored is NULL when the caller passed undefined
getAdjustmentPercentage(pointsScored) ==
    IF pointsScored \in 0..19 THEN POINTS_ADJUSTMENT[pointsScored + 1]
    ELSE IF pointsScored > 19
    THEN IF 5000 - (pointsScored - 19) * 263 < 0 THEN 0
         ELSE 5000 - (pointsScored - 19) * 263
    ELSE 10000

\* a property of matchData, undef when the caller did not set it
Prop(matchData, name, undef) ==
    IF name \in DOMAIN matchData THEN matchData[name] ELSE undef

MinRating == RatingUnit \div 2
MaxRating == 7 * RatingUnit

\* Rn limited to [0.5, 7.0]; the sum is never formed beyond the upper limit
Clamp(rating, change) ==
    IF change > MaxRating - rating THEN MaxRating
    ELSE IF rating + change < MinRating THEN MinRating
    ELSE rating + change

\* the rating difference: the notes are even numbers of units, the halves exact
RatingDifference(matchData) ==
    (matchData.playerRating - matchData.adversary1Rating) \div 2
    + (matchData.teammateRating - matchData.adversary2Rating) \div 2

\* the three reliabilities added up, in percent: avgReliability times 300
ReliabilitySum(matchData) ==
    matchData.teammateReliability + matchData.adversary1Reliability
    + matchData.adversary2Reliability

\* calculateNewRating: W in hundredths, times hundredths of a percent, times
\* the reliability sum over 300, is Ro in units of the rating
calculateNewRating(matchData) ==
    LET pointsConceded == Prop(matchData, "pointsConceded", NULL)
        isWinner == Prop(matchData, "isWinner", FALSE)
        W  == lookupW(RatingDifference(matchData))
        Z  == W * getAdjustmentPercentage(pointsConceded)
        Ro == Z * ReliabilitySum(matchData)
    IN  IF isWinner THEN Clamp(matchData.playerRating, Ro)
        ELSE Clamp(matchData.playerRating, 0 - Ro)

-----------------------------------------------------------------------------
(* updatePlayerRatings, the background task of a confirmed score *)

\* note: the notes of the loaded user instances; snap: the notes as loaded
NewTask(r) == [r |-> r, pc |-> "load", i |-> 0, players |-> <<>>, note |-> <<>>,
               snap |-> <<>>, games |-> <<0, 0>>]

RECURSIVE TasksFor(_)
\* one task for each reservation of the loop of finalizePendingScores
TasksFor(rs) == IF rs = {} THEN <<>> ELSE <<NewTask(Min(rs))>> \o TasksFor(rs \ {Min(rs)})

\* (x || dflt) of a stored number
OrElse(x, dflt) == IF x = NULL \/ x = 0 THEN dflt ELSE x

\* the ways participants.forEach fills pMap: one participant per team slot
TeamMaps(v, r) ==
    {f \in [0..3 -> PartsOf(v, r)] : \A t \in 0..3 : f[t].team = t}

teamAGames(sc) == OrElse(sc.s1a, 0) + OrElse(sc.s2a, 0) + OrElse(sc.s3a, 0)
teamBGames(sc) == OrElse(sc.s1b, 0) + OrElse(sc.s2b, 0) + OrElse(sc.s3b, 0)

\* the end of a task: what it held in memory is gone
EndTask(task, pc) == [NewTask(task.r) EXCEPT !.pc = pc]

\* the query of the reservation with its participants and their users
RatingLoad(k) ==
    LET task == tasks[k]
        r == task.r
    IN  /\ k \in DOMAIN tasks
        /\ task.pc = "load"
        /\ IF r \notin DOMAIN db.res \/ Cardinality(PartsOf(db, r)) < MatchSize
           THEN tasks' = [tasks EXCEPT ![k] = EndTask(task, "skipped")]
           ELSE IF TeamMaps(db, r) = {}
           THEN tasks' = [tasks EXCEPT ![k] = EndTask(task, "aborted")]
           ELSE \E f \in TeamMaps(db, r) :
                   tasks' = [tasks EXCEPT ![k] =
                       [task EXCEPT !.pc = "update",
                                    !.players = [t \in 1..4 |-> f[t - 1].user],
                                    !.note = [t \in 1..4 |-> db.note[f[t - 1].user]],
                                    !.snap = [t \in 1..4 |-> db.note[f[t - 1].user]],
                                    !.games = <<teamAGames(db.res[r].score),
                                                teamBGames(db.res[r].score)>>]]
        /\ UNCHANGED <<db, tx, nextId, nextPid, started>>

\* players a1, a2, b1, b2 are 1 to 4: the teammate and the opponents of player i
Teammate(i) == CASE i = 1 -> 2 [] i = 2 -> 1 [] i = 3 -> 4 [] OTHER -> 3
Opponents(i) == IF i <= 2 THEN <<3, 4>> ELSE <<1, 2>>

\* the matchData updatePlayerRatings builds for player i of the task
MatchDataOf(task, i) ==
    [playerRating          |-> OrElse(task.note[i], MinRating),
     teammateRating        |-> OrElse(task.note[Teammate(i)], MinRating),
     adversary1Rating      |-> OrElse(task.note[Opponents(i)[1]], MinRating),
     adversary2Rating      |-> OrElse(task.note[Opponents(i)[2]], MinRating),
     pointsScored          |-> IF i <= 2 THEN task.games[1] ELSE task.games[2],
     teammateReliability   |-> OrElse(Fiability(task.players[Teammate(i)]), 50),
     adversary1Reliability |-> OrElse(Fiability(task.players[Opponents(i)[1]]), 50),
     adversary2Reliability |-> OrElse(Fiability(task.players[Opponents(i)[2]]), 50)]

\* one turn of the loop: the new rating of the next player, written at once
RatingUpdate(k) ==
    LET task == tasks[k]
        i == task.i + 1
        newRating == calculateNewRating(MatchDataOf(task, i))
    IN  /\ k \in DOMAIN tasks
        /\ task.pc = "update"
        /\ CanLock(0, {LockU(task.players[i])})
        /\ db' = [db EXCEPT !.note[task.players[i]] = newRating]
        /\ tasks' = [tasks EXCEPT ![k] =
                        IF i = MatchSize THEN EndTask(task, "ok")
                        ELSE [task EXCEPT !.i = i, !.note[i] = newRating]]
        /\ UNCHANGED <<tx, nextId, nextPid, started>>

\* a query or an update of the task throws: the catch block logs it
RatingThrow(k) ==
    /\ k \in DOMAIN tasks
    /\ tasks[k].pc \in {"load", "update"}
    /\ tasks' = [tasks EXCEPT ![k] = EndTask(tasks[k], "failed")]
    /\ UNCHANGED <<db, tx, nextId, nextPid, started>>

-----------------------------------------------------------------------------
(* Scores *)

Abs(x) == IF x < 0 THEN 0 - x ELSE x
Max2(x, y) == IF x >= y THEN x ELSE y
Min2(x, y) == IF x <= y THEN x ELSE y

\* a normal set that takes any score of a team with seven games
validateSet_AnySeven(setIndex, a, b, isSuperTieBreak) ==
    IF setIndex = 2 /\ isSuperTieBreak
    THEN Max2(a, b) >= 10 /\ Abs(a - b) >= 2
    ELSE IF Max2(a, b) > 7 THEN FALSE
    ELSE IF Max2(a, b) = 6 THEN Abs(a - b) >= 2
    ELSE Max2(a, b) = 7

validateSet(setIndex, a, b, isSuperTieBreak) ==
    IF setIndex = 2 /\ isSuperTieBreak
    THEN Max2(a, b) >= 10 /\ Abs(a - b) >= 2
    ELSE IF Max2(a, b) > 7 THEN FALSE
    ELSE IF Max2(a, b) = 6 THEN Abs(a - b) >= 2
    ELSE IF Max2(a, b) = 7 THEN Min2(a, b) = 5 \/ Min2(a, b) = 6
    ELSE FALSE

RECURSIVE WinnerFrom(_, _, _, _)
\* the loop of determineWinner from set i on, with the wins counted so far
WinnerFrom(sets, i, winsA, winsB) ==
    IF i > Len(sets) THEN NULL
    ELSE LET wa == IF sets[i].a > sets[i].b THEN winsA + 1 ELSE winsA
             wb == IF sets[i].a > sets[i].b THEN winsB
                   ELSE IF sets[i].b > sets[i].a THEN winsB + 1 ELSE winsB
         IN  IF wa = 2 THEN 1
             ELSE IF wb = 2 THEN 2
             ELSE WinnerFrom(sets, i + 1, wa, wb)

determineWinner(sets) == WinnerFrom(sets, 1, 0, 0)

\* scoreData: set1, set2, an optional set3 and set3_mode
ScoreData(a1, b1, a2, b2, has3, a3, b3, stb) ==
    [s1a |-> a1, s1b |-> b1, s2a |-> a2, s2b |-> b2,
     has3 |-> has3, s3a |-> a3, s3b |-> b3, stb |-> stb]

\* the submissions the callers of the model draw from
Scores ==
    <<ScoreData(6, 4, 6, 4, FALSE, 0, 0, FALSE),
      ScoreData(4, 6, 5, 7, FALSE, 0, 0, FALSE),
      ScoreData(6, 4, 4, 6, TRUE, 10, 8, TRUE),
      ScoreData(6, 4, 4, 6, FALSE, 0, 0, FALSE),
      ScoreData(6, 5, 6, 4, FALSE, 0, 0, FALSE),
      ScoreData(6, 4, 6, 4, TRUE, 6, 3, FALSE)>>

FirstTwo(sd) == <<[a |-> sd.s1a, b |-> sd.s1b], [a |-> sd.s2a, b |-> sd.s2b]>>

\* the third set collected whenever the submission has one
SetsOf_KeepsThird(sd) ==
    IF sd.has3 THEN Append(FirstTwo(sd), [a |-> sd.s3a, b |-> sd.s3b])
    ELSE FirstTwo(sd)
\* the sets updateScore collects: the third only after a 1-1 split
SetsOf(sd) ==
    IF determineWinner(FirstTwo(sd)) = NULL
    THEN Append(FirstTwo(sd), [a |-> sd.s3a, b |-> sd.s3b])
    ELSE FirstTwo(sd)

\* "none" when the submission passes validation, else the error thrown
scoreError(sd) ==
    IF ~validateSet(0, sd.s1a, sd.s1b, FALSE) THEN "invalid_set1"
    ELSE IF ~validateSet(1, sd.s2a, sd.s2b, FALSE) THEN "invalid_set2"
    ELSE IF determineWinner(FirstTwo(sd)) # NULL THEN "none"
    ELSE IF ~sd.has3 THEN "set3_required"
    ELSE IF ~validateSet(2, sd.s3a, sd.s3b, sd.stb) THEN "invalid_set3"
    ELSE IF determineWinner(SetsOf(sd)) = NULL THEN "no_winner"
    ELSE "none"

sameScore(sc, sd) ==
    /\ sc.s1a = sd.s1a /\ sc.s1b = sd.s1b
    /\ sc.s2a = sd.s2a /\ sc.s2b = sd.s2b
    /\ (Len(SetsOf(sd)) < 3 \/ (sc.s3a = sd.s3a /\ sc.s3b = sd.s3b))
    /\ sc.teamwin = determineWinner(SetsOf(sd))

\* a comparison that never runs: every submission is PENDING
newStatus_AlwaysPending(sc, sd, submitterId) == 0
\* a comparison with the stored score whoever submitted it
newStatus_AnySubmitter(sc, sd, submitterId) ==
    IF sc.status = 0 THEN IF sameScore(sc, sd) THEN 1 ELSE 3 ELSE 0
\* 0 PENDING, 1 CONFIRMED, 3 CONFLICT
newStatus(sc, sd, submitterId) ==
    IF sc.status = 0 /\ sc.submitter # submitterId
    THEN IF sameScore(sc, sd) THEN 1 ELSE 3
    ELSE 0

\* the columns reservation.update writes
StoredScore(sc, sd, submitterId) ==
    [s1a |-> sd.s1a, s1b |-> sd.s1b, s2a |-> sd.s2a, s2b |-> sd.s2b,
     s3a |-> IF Len(SetsOf(sd)) = 3 THEN sd.s3a ELSE NULL,
     s3b |-> IF Len(SetsOf(sd)) = 3 THEN sd.s3b ELSE NULL,
     stb |-> IF sd.stb THEN 1 ELSE 0,
     status |-> newStatus(sc, sd, submitterId),
     teamwin |-> determineWinner(SetsOf(sd)),
     submitter |-> submitterId,
     old |-> FALSE]

ScoreStart(p, US, RS) ==
    /\ \E u \in US, r \in RS, i \in DOMAIN Scores :
          Begin(p, "updateScore", [NoArgs EXCEPT !.u = u, !.r = r, !.sc = i], "s_lock")
    /\ UNCHANGED <<db, nextId, nextPid, started, tasks>>

\* findByPk FOR UPDATE
ScoreLock(p) ==
    /\ tx[p].pc = "s_lock"
    /\ CanLock(p, {LockR(tx[p].a.r)})
    /\ Step(p, {LockR(tx[p].a.r)}, MyView(p), "s_body")
    /\ UNCHANGED <<db, nextId, nextPid, started, tasks>>

\* the rating update awaited inside the transaction of the submission: its
\* failure rolls the score back and is the answer of the call
ScoreBody_AwaitsRating(p, keep) ==
    LET a  == tx[p].a
        v  == MyView(p)
        sd == Scores[a.sc]
    IN  /\ tx[p].pc = "s_body"
        /\ UNCHANGED <<nextId, nextPid>>
        /\ IF a.r \notin DOMAIN v.res
           THEN Rollback(p, "not_found", keep) /\ UNCHANGED <<started, tasks>>
           ELSE IF v.res[a.r].score.status \in {1, 2}
           THEN Rollback(p, "locked", keep) /\ UNCHANGED <<started, tasks>>
           ELSE IF scoreError(sd) # "none"
           THEN Rollback(p, scoreError(sd), keep) /\ UNCHANGED <<started, tasks>>
           ELSE IF newStatus(v.res[a.r].score, sd, a.u) # 1
           THEN /\ Commit(p, [v EXCEPT !.res[a.r].score = StoredScore(@, sd, a.u)],
                          "ok", a.r, keep)
                /\ UNCHANGED <<started, tasks>>
           ELSE /\ started' = started (+) SetToBag({a.r})
                /\ \/ /\ Commit(p, [v EXCEPT !.res[a.r].score = StoredScore(@, sd, a.u)],
                                 "ok", a.r, keep)
                      /\ tasks' = Append(tasks, NewTask(a.r))
                   \/ /\ Rollback(p, "rating_failed", keep)
                      /\ tasks' = Append(tasks, EndTask(NewTask(a.r), "failed"))

\* lock check, validation, comparison, update, commit, rating trigger
ScoreBody(p, keep) ==
    LET a  == tx[p].a
        v  == MyView(p)
        sd == Scores[a.sc]
    IN  /\ tx[p].pc = "s_body"
        /\ UNCHANGED <<nextId, nextPid>>
        /\ IF a.r \notin DOMAIN v.res
           THEN Rollback(p, "not_found", keep) /\ UNCHANGED <<started, tasks>>
           ELSE IF v.res[a.r].score.status \in {1, 2}
           THEN Rollback(p, "locked", keep) /\ UNCHANGED <<started, tasks>>
           ELSE IF scoreError(sd) # "none"
           THEN Rollback(p, scoreError(sd), keep) /\ UNCHANGED <<started, tasks>>
           ELSE /\ Commit(p, [v EXCEPT !.res[a.r].score = StoredScore(@, sd, a.u)],
                          "ok", a.r, keep)
                /\ started' = IF newStatus(v.res[a.r].score, sd, a.u) = 1
                              THEN started (+) SetToBag({a.r}) ELSE started
                /\ tasks' = IF newStatus(v.res[a.r].score, sd, a.u) = 1
                            THEN Append(tasks, NewTask(a.r)) ELSE tasks

\* a selection by age alone, whatever the score status
StalePending_AnyStatus(v) ==
    {r \in DOMAIN v.res : v.res[r].score.status # NULL /\ v.res[r].score.old}
\* a selection by status alone, whatever the age
StalePending_AnyAge(v) ==
    {r \in DOMAIN v.res : v.res[r].score.status = 0}
\* the reservations finalizePendingScores selects
StalePending(v) ==
    {r \in DOMAIN v.res : v.res[r].score.status = 0 /\ v.res[r].score.old}

FinalizeStart(p) ==
    /\ BagCardinality(started) < MaxTasks
    /\ Begin(p, "finalizePendingScores", NoArgs, "f_lock")
    /\ UNCHANGED <<db, nextId, nextPid, started, tasks>>

\* the selection FOR UPDATE, the updates and the rating triggers of the loop
FinalizeLock(p) ==
    LET v  == MyView(p)
        rs == StalePending(v)
        v1 == [v EXCEPT !.res = [r \in DOMAIN v.res |->
                  IF r \in rs THEN [v.res[r] EXCEPT !.score.status = 2, !.score.old = FALSE]
                  ELSE v.res[r]]]
    IN  /\ tx[p].pc = "f_lock"
        /\ CanLock(p, {LockR(r) : r \in rs})
        /\ Step(p, {LockR(r) : r \in rs}, v1, "f_commit")
        /\ started' = started (+) SetToBag(rs)
        /\ tasks' = tasks \o TasksFor(rs)
        /\ UNCHANGED <<db, nextId, nextPid>>

FinalizeCommit(p, keep) ==
    /\ tx[p].pc = "f_commit"
    /\ Commit(p, MyView(p), "ok", 0, keep)
    /\ UNCHANGED <<nextId, nextPid, started, tasks>>

\* the commit fails: the catch block rolls back
FinalizeFail(p, keep) ==
    /\ tx[p].pc = "f_commit"
    /\ Rollback(p, "commit_failed", keep)
    /\ UNCHANGED <<nextId, nextPid, started, tasks>>

\* more than 24 hours pass without a write to any reservation
DayPasses ==
    /\ \E r \in DOMAIN db.res : ~db.res[r].score.old
    /\ db' = [db EXCEPT !.res = [r \in DOMAIN db.res |-> [db.res[r] EXCEPT !.score.old = TRUE]]]
    /\ UNCHANGED <<tx, nextId, nextPid, started, tasks>>

-----------------------------------------------------------------------------
(* Lock waits: the database aborts a transaction of a wait cycle *)

\* the row locks the next statement of the open transaction asks for
Wants(p) ==
    LET a == tx[p].a
        v == MyView(p)
        pc == tx[p].pc
    IN  CASE pc = "c_user"   -> {LockU(a.u)}
          [] pc = "c_slot"   -> {LockS(a.s)}
          [] pc = "c_check"  -> CapacityLocks(v, {a.s}, a.d)
          [] pc = "c_sib"    -> {LockS(x) : x \in Siblings(a.s) \ {a.s}}
                                \cup CapacityLocks(v, Siblings(a.s) \ {a.s}, a.d)
          [] pc = "c_pay"    -> CapacityLocks(v, {tx[p].plage}, a.d)
          [] pc = "c_excess" -> {LockR(r) : r \in ExcessPending(v, tx[p].plage, a.d)}
                                \cup RefundLocks(v, ExcessPending(v, tx[p].plage, a.d))
          [] pc = "k_res"    -> {LockR(a.r)}
          [] pc = "k_slot"   -> {LockS(v.res[a.r].slot)}
          [] pc = "k_body"   -> CancelBodyLocks(v, a)
          [] pc = "r_lock"   -> {LockR(r) : r \in NotCancelled(v)}
          [] pc = "s_lock"   -> {LockR(a.r)}
          [] pc = "f_lock"   -> {LockR(r) : r \in StalePending(v)}
          [] OTHER           -> {}

WaitsFor(p, q) == Wants(p) \cap tx[q].locks # {}

DeadlockAbort(p, keep) ==
    /\ \E q \in Procs \ {p} : WaitsFor(p, q) /\ WaitsFor(q, p)
    /\ Rollback(p, "deadlock", keep)
    /\ UNCHANGED <<nextId, nextPid, started, tasks>>

-----------------------------------------------------------------------------
(* Specifications *)

InitialDb ==
    [bal   |-> [u \in Users |-> InitialBalance(u)],
     note  |-> [u \in Players |-> DefaultNote],
     led   |-> EmptyBag,
     res   |-> EmptyFn,
     par   |-> {},
     dispo |-> [s \in Slots |-> TRUE]]

Init ==
    /\ db = InitialDb
    /\ tx = [p \in Procs |-> Idle]
    /\ nextId = 1
    /\ nextPid = 1
    /\ started = EmptyBag
    /\ tasks = <<>>

\* one caller at a time: the booking calls of the reservation service
Next ==
    \/ CreateStart(1, CreateArgs(Users, Slots, BOOLEAN), MaxRes)
    \/ CreateLockUser(1)
    \/ CreateLockSlot(1)
    \/ CreateCheck(1)
    \/ CreateSiblings(1, FALSE)
    \/ CreatePay(1, Rough, FALSE)
    \/ CreateExcess(1, FALSE)
    \/ CancelStart(1, CancelArgs(Users))
    \/ CancelLockReservation(1, MinutesAhead, FALSE)
    \/ CancelLockSlot(1)
    \/ CancelBody(1, Rough, FALSE)
    \/ ProcessStart(1)
    \/ ProcessLock(1)
    \/ ProcessBody(1, FALSE)
    \/ HandleValidMatchCreated(1, FALSE)

Spec == Init /\ [][Next]_vars

\* one caller at a time, with players joining and leaving
NextJoin ==
    \/ CreateStart(1, CreateArgs(Users, {1, 3}, BOOLEAN), MaxRes)
    \/ CreateLockUser(1)
    \/ CreateLockSlot(1)
    \/ CreateCheck(1)
    \/ CreateSiblings(1, FALSE)
    \/ CreatePay(1, Smooth, FALSE)
    \/ CreateExcess(1, FALSE)
    \/ CancelStart(1, CancelArgs(Users))
    \/ CancelLockReservation(1, MinutesAhead, FALSE)
    \/ CancelLockSlot(1)
    \/ CancelBody(1, Rough, FALSE)
    \/ Join(1, Users, FALSE)

SpecJoin == Init /\ [][NextJoin]_vars

\* one caller at a time who keeps the result of each call: create and cancel
\* with every way they fail
NextCalls ==
    \/ CreateStart(1, CreateArgs(Users, Slots, BOOLEAN), MaxRes)
    \/ CreateLockUser(1)
    \/ CreateLockSlot(1)
    \/ CreateCheck(1)
    \/ CreateSiblings(1, TRUE)
    \/ CreatePay(1, Rough, TRUE)
    \/ CreateInsertFail(1, TRUE)
    \/ CreateExcess(1, TRUE)
    \/ CreateExcessFail(1, TRUE)
    \/ CancelStart(1, CancelArgs(Users))
    \/ CancelLockReservation(1, MinutesAhead, TRUE)
    \/ CancelLockSlot(1)
    \/ CancelBody(1, Rough, TRUE)

SpecCalls == Init /\ [][NextCalls]_vars

\* the requests of the concurrent callers: a private match paid by credit and
\* VALID at once, or an open match paid by credit and pending
ConcArgs(u) ==
    {a \in CreateArgs({u}, Siblings(1), {FALSE}) :
        \/ a.typer = 1 /\ a.pay = 1 /\ a.etat = 1
        \/ a.typer = 2 /\ a.pay = 1 /\ a.etat = 0}

\* process p serves user p: concurrent create and cancel calls
NextConc ==
    \E p \in Procs :
        \/ CreateStart(p, ConcArgs(p), MaxResConc)
        \/ CreateLockUser(p)
        \/ CreateLockSlot(p)
        \/ CreateCheck(p)
        \/ CreateSiblings(p, FALSE)
        \/ CreatePay(p, Smooth, FALSE)
        \/ CreateExcess(p, FALSE)
        \/ CancelStart(p, CancelArgs({p}))
        \/ CancelLockReservation(p, {25 * 60}, FALSE)
        \/ CancelLockSlot(p)
        \/ CancelBody(p, Smooth, FALSE)
        \/ DeadlockAbort(p, FALSE)

SpecConc == Init /\ [][NextConc]_vars

-----------------------------------------------------------------------------
(* Capacity *)

RECURSIVE SumCapacity(_)
SumCapacity(S) == IF S = {} THEN 0 ELSE Capacity(Min(S)) + SumCapacity(S \ {Min(S)})

\* C1: in every reachable state of concurrent create and cancel calls, each
\* sibling group holds, on each date, at most as many VALID reservations
\* (etat = 1, isCancel = 0) as the capacities of its slots add up to.
C1_CapacitySafety ==
    \A s \in Slots, d \in Dates :
        Cardinality(ValidOn(db, Siblings(s), d)) <= SumCapacity(Siblings(s))

\* a group filled to its capacity while a further VALID create, having found
\* its own slot full under the lock, looks at the siblings
C1_Witness ==
    \E p \in Procs :
        /\ tx[p].pc = "c_sib" /\ tx[p].a.etat = 1
        /\ Cardinality(ValidOn(db, Siblings(tx[p].a.s), tx[p].a.d))
              = SumCapacity(Siblings(tx[p].a.s))

-----------------------------------------------------------------------------
(* Refunds and the ledger *)

RECURSIVE SumRows(_, _)
\* the amounts of the rows of S added up, each as often as the ledger holds it
SumRows(led, S) ==
    IF S = {} THEN 0
    ELSE LET row == CHOOSE x \in S : TRUE
         IN  row.amt * CopiesIn(row, led) + SumRows(led, S \ {row})

\* the refund rows of user u for reservation r
RefundRows(v, u, r) == {row \in Rows(v) : row.u = u /\ row.amt > 0 /\ row.key.r = r}

\* C2: across create (with its cancelExcessPendingReservations), cancel,
\* handleValidMatchCreated and processStatusRefunds, no user's balance is
\* credited more than once for the same reservation.
C2_RefundedAtMostOnce ==
    \A u \in Users, r \in DOMAIN db.res :
        Cardinality(RefundRows(db, u, r)) <= 1
        /\ \A row \in RefundRows(db, u, r) : CopiesIn(row, db.led) <= 1

\* C3: after any number of create and cancel calls, successful or failed, the
\* balance of every user is the initial balance plus the amounts of the
\* user's ledger rows.
C3_BalanceIsLedger ==
    \A u \in Users :
        db.bal[u] = InitialBalance(u) + SumRows(db.led, {row \in Rows(db) : row.u = u})

\* a user debited by create and refunded by cancel, after a call that failed
\* and used up a reservation id without leaving a reservation
C3_Witness ==
    \E u \in Users :
        /\ \E row \in Rows(db) : row.u = u /\ row.amt < 0
        /\ \E row \in Rows(db) : row.u = u /\ row.amt > 0 /\ row.key.k = "refund:cancel"
        /\ \E id \in 1..(nextId - 1) : id \notin DOMAIN db.res

\* C4: the ledger holds at most one row for each (user, type_key) pair,
\* whichever of create, cancel and refundUserIdempotent appended the rows.
C4_OneRowPerKey ==
    \A row \in Rows(db) :
        /\ CopiesIn(row, db.led) <= 1
        /\ \A other \in Rows(db) : other.u = row.u /\ other.key = row.key => other = row

-----------------------------------------------------------------------------
(* The creator cancels *)

\* the step in which process p commits a cancel by the creator of the reservation
CreatorCancelCommits(p) ==
    /\ tx[p].pc = "k_body"
    /\ isCancellerCreator(db, tx[p].a.r, tx[p].a.u)
    /\ db.res[tx[p].a.r].isCancel = 0
    /\ db'.res[tx[p].a.r].isCancel = 1

\* C9: when the creator cancels, every PAID participant with a debit for the
\* reservation is credited exactly the absolute amount of that debit, and a
\* participant without a debit is credited nothing.
C9_CreatorCancelRefundsDebit ==
    [][CreatorCancelCommits(1) =>
         \A q \in PartsOf(db, tx[1].a.r) :
            IF q.state = 1 /\ DebitsOf(db, q.user, q.res) # {}
            THEN \E row \in DebitsOf(db, q.user, q.res) :
                    db'.bal[q.user] = db.bal[q.user] + Abs(row.amt)
            ELSE db'.bal[q.user] = db.bal[q.user]]_vars

\* a reservation cancelled by its creator whose refund rows show two amounts:
\* a discounted creator debit and the full price a joiner paid
C9_Witness ==
    \E r \in DOMAIN db.res :
        /\ db.res[r].isCancel = 1 /\ db.res[r].etat = 3
        /\ \E row \in Rows(db) : row.key = RefundCancelKey(r) /\ row.u = db.res[r].user
                                 /\ row.amt = UnitPrice - MembershipDiscount
        /\ \E row \in Rows(db) : row.key = RefundCancelKey(r) /\ row.u # db.res[r].user
                                 /\ row.amt = UnitPrice

\* C10: after a successful cancel by the creator the reservation has
\* isCancel = 1 and etat = 3 and no participant rows, and the slot is flagged
\* available whenever its VALID count on the date is below its capacity.
C10_CreatorCancelState ==
    [][CreatorCancelCommits(1) =>
         LET r == tx[1].a.r
         IN  /\ db'.res[r].isCancel = 1 /\ db'.res[r].etat = 3
             /\ PartsOf(db', r) = {}
             /\ (hasAvailableCapacity(db', db.res[r].slot, db.res[r].date)
                    => db'.dispo[db.res[r].slot])]_vars

\* a private match paid by credit, which closed its slot when it was created,
\* cancelled by its creator, the slot open again
C10_Witness ==
    \E r \in DOMAIN db.res :
        /\ db.res[r].isCancel = 1 /\ db.res[r].etat = 3
        /\ db.res[r].typer = 1 /\ DebitsOf(db, db.res[r].user, r) # {}
        /\ db.dispo[db.res[r].slot]
        /\ hasAvailableCapacity(db, db.res[r].slot, db.res[r].date)

-----------------------------------------------------------------------------
(* The idempotent refund on its own *)

RefundAmounts == {0, 500, 1000}

\* a caller applies refundUserIdempotent and keeps what it returned
RefundCall(p) ==
    \E u \in {1, 2}, amount \in RefundAmounts, r \in 1..MaxRes, pid \in {NULL, 1} :
        /\ BagCardinality(db.led) < MaxRows \/ HasRow(db, u, RefundKey(r, u, pid))
        /\ db' = refundUserIdempotent(db, u, amount, r, pid)
        /\ tx' = [tx EXCEPT ![p] =
                    [Idle EXCEPT !.pc = "done", !.op = "refundUserIdempotent",
                                 !.a.u = u, !.a.amt = amount, !.a.r = r, !.a.pid = pid,
                                 !.out = IF refundReturns(db, u, amount, r, pid)
                                         THEN "true" ELSE "false"]]
        /\ UNCHANGED <<nextId, nextPid, started, tasks>>

NextLedger == RefundCall(1)

SpecLedger == Init /\ [][NextLedger]_vars

\* C5: a call of the idempotent refund whose key (reservation, user,
\* participant) the ledger already holds returns false and changes neither
\* balance nor ledger; the first call with a key and a positive amount returns
\* true, credits the amount and appends the one row of the key.
C5_RefundTwiceIsOnce ==
    [][LET a == tx'[1].a
           key == RefundKey(a.r, a.u, a.pid)
       IN  IF HasRow(db, a.u, key)
           THEN tx'[1].out = "false" /\ db' = db
           ELSE IF a.amt > 0
           THEN /\ tx'[1].out = "true"
                /\ db'.bal = [db.bal EXCEPT ![a.u] = @ + a.amt]
                /\ db'.led = db.led (+) SetToBag({LedgerRow(a.u, a.amt, key)})
           ELSE tx'[1].out = "false" /\ db' = db]_vars

\* the second call with a key: the row of the first call is there, the call
\* returned false
C5_Witness ==
    /\ tx[1].out = "false" /\ tx[1].a.amt > 0
    /\ \E row \in Rows(db) : /\ row.u = tx[1].a.u
                             /\ row.key = RefundKey(tx[1].a.r, tx[1].a.u, tx[1].a.pid)
                             /\ db.bal[row.u] = InitialBalance(row.u) + row.amt

-----------------------------------------------------------------------------
(* One match booked: the state in which two players race for the slot next  *)
(* to it, and in which its score is submitted                               *)

\* user 3 asks for a private match on slot 2, paid by credit
BookedArgs == [NoArgs EXCEPT !.u = 3, !.s = 2, !.d = 1, !.typer = 1, !.pay = 1, !.etat = 1]

\* the rows after that create
BookedDb ==
    LET a  == BookedArgs
        t  == totalChargeToDeduct(InitialDb, a, a.s)
        v1 == InsertReservation([InitialDb EXCEPT !.bal[a.u] = @ - t], a, a.s, t, 1)
        v2 == MarkSlot(cancelExcessPendingReservations(v1, a.s, a.d), a, a.s)
    IN  [v2 EXCEPT !.par = @ \cup {CreatorParticipant(a, 1, 1)}]

InitBooked ==
    /\ db = BookedDb
    /\ tx = [p \in Procs |-> Idle]
    /\ nextId = 2
    /\ nextPid = 2
    /\ started = EmptyBag
    /\ tasks = <<>>

\* the racing requests of user u: a VALID reservation on slot 1 on the date of
\* the booked match, paid by credit
RaceArgs(u) ==
    {a \in CreateArgs({u}, {1}, {FALSE}) : a.d = BookedArgs.d /\ a.etat = 1 /\ a.pay = 1}

\* process p serves user p, who calls create once
NextRace ==
    \E p \in Procs :
        \/ tx[p].pc = "idle" /\ CreateStart(p, RaceArgs(p), MaxResConc)
        \/ CreateLockUser(p)
        \/ CreateLockSlot(p)
        \/ CreateCheck(p)
        \/ CreateSiblings(p, TRUE)
        \/ CreatePay(p, Smooth, TRUE)
        \/ CreateExcess(p, TRUE)

SpecRace == InitBooked /\ [][NextRace]_vars

DebitRows(v) == {row \in Rows(v) : row.amt < 0}

\* C6: two concurrent creates of VALID reservations on the same slot of
\* capacity 1, the sibling full: once both have returned, exactly one has
\* committed a reservation and the other has failed with the 409 "all slots
\* full" error; the ledger holds one debit, the winner's, and the balance of
\* the loser is unchanged.
C6_CapacityRace ==
    (\A p \in Procs : tx[p].pc = "done") =>
        \E w \in Procs :
            /\ tx[w].out = "ok"
            /\ tx[w].rid \in ValidOn(db, {1}, 1)
            /\ DebitRows(db) = {LedgerRow(w, db.bal[w] - InitialBalance(w),
                                          DebitCreatorKey(tx[w].rid, w))}
            /\ CopiesIn(LedgerRow(w, db.bal[w] - InitialBalance(w),
                                  DebitCreatorKey(tx[w].rid, w)), db.led) = 1
            /\ db.bal[w] < InitialBalance(w)
            /\ \A l \in Procs \ {w} :
                  /\ tx[l].out = "slot_full"
                  /\ db.bal[l] = InitialBalance(l)
                  /\ Cardinality(ValidOn(db, Siblings(1), 1)) = SumCapacity(Siblings(1))

\* both calls have returned, one of them refused
C6_Witness ==
    /\ \A p \in Procs : tx[p].pc = "done"
    /\ \E l \in Procs : tx[l].out = "slot_full"

-----------------------------------------------------------------------------
(* The score of the booked match *)

\* process p serves user p, who submits scores; the finalize job; the clock
NextScore ==
    \/ \E p \in Procs :
          \/ ScoreStart(p, {p}, DOMAIN db.res)
          \/ ScoreLock(p)
          \/ ScoreBody(p, TRUE)
          \/ FinalizeStart(p)
          \/ FinalizeLock(p)
          \/ FinalizeCommit(p, TRUE)
          \/ FinalizeFail(p, TRUE)
    \/ DayPasses

SpecScore == InitBooked /\ [][NextScore]_vars

\* the score columns of a reservation that a submission or the job writes
ScoreColumns(sc) == <<sc.status, sc.s1a, sc.s1b, sc.s2a, sc.s2b, sc.s3a, sc.s3b, sc.teamwin>>

\* C7: once score_status is CONFIRMED (1) or AUTO_CONFIRMED (2), no step of
\* updateScore or finalizePendingScores, in any interleaving, changes the
\* status, the set scores or teamwin, and an updateScore that reads such a
\* reservation fails.
C7_ScoreLocked ==
    [][\A r \in DOMAIN db.res :
          db.res[r].score.status \in {1, 2} =>
             /\ ScoreColumns(db'.res[r].score) = ScoreColumns(db.res[r].score)
             /\ \A p \in Procs :
                   tx[p].pc = "s_body" /\ tx[p].a.r = r /\ tx'[p].pc = "done"
                      => tx'[p].out = "locked"]_vars

\* a confirmed or automatically confirmed score and a submission refused for it
C7_Witness ==
    \E r \in DOMAIN db.res, p \in Procs :
        /\ db.res[r].score.status \in {1, 2}
        /\ tx[p].pc = "done" /\ tx[p].op = "updateScore" /\ tx[p].a.r = r
        /\ tx[p].out = "locked"

\* the stored sets are the submitted ones
IdenticalSets(sc, sd) ==
    /\ sc.s1a = sd.s1a /\ sc.s1b = sd.s1b /\ sc.s2a = sd.s2a /\ sc.s2b = sd.s2b
    /\ IF Len(SetsOf(sd)) = 3 THEN sc.s3a = sd.s3a /\ sc.s3b = sd.s3b
       ELSE sc.s3a = NULL /\ sc.s3b = NULL

-----------------------------------------------------------------------------
(* The cancellation window *)

\* C11: a cancel that reads the clock when the match starts within 24 hours
\* fails with the too-late error and changes no balance, reservation,
\* participant or slot; with more than 24 hours left before the start (24h30m,
\* 25h) it is not refused for lateness and goes on to lock the slot.
C11_CancelWindow ==
    [][tx[1].pc = "k_res" /\ tx'[1].a.mins # 0 =>
          LET mins == tx'[1].a.mins
          IN  /\ (mins > 0 /\ mins <= 24 * 60 =>
                     tx'[1].pc = "done" /\ tx'[1].out = "too_late" /\ db' = db)
              /\ (mins > 24 * 60 => tx'[1].pc = "k_slot")]_vars

-----------------------------------------------------------------------------
(* PENDING reservations and capacity *)

\* the tables without their PENDING reservations
WithoutPending(v) ==
    [v EXCEPT !.res = Restrict(v.res, {r \in DOMAIN v.res :
                                          ~(v.res[r].isCancel = 0 /\ v.res[r].etat = 0)})]

\* C12: PENDING reservations hold no capacity. hasAvailableCapacity answers
\* the same with and without the PENDING reservations of the tables, and a
\* create whose slot holds fewer VALID reservations than its capacity is never
\* refused for capacity, however many PENDING reservations the slot has: the
\* first check sends it on to the payment, the final check does not reject it.
C12_PendingHoldsNoCapacity ==
    [][/\ \A s \in Slots, d \in Dates :
             hasAvailableCapacity(db, s, d) = hasAvailableCapacity(WithoutPending(db), s, d)
       /\ (tx[1].pc = "c_check"
            /\ Cardinality(ValidOn(db, {tx[1].a.s}, tx[1].a.d)) < Capacity(tx[1].a.s))
              => tx'[1].pc = "c_pay" /\ tx'[1].plage = tx[1].a.s
       /\ (tx[1].pc = "c_pay"
            /\ Cardinality(ValidOn(db, {tx[1].plage}, tx[1].a.d)) < Capacity(tx[1].plage))
              => tx'[1].out \notin {"slot_full", "just_taken"}]_vars

\* a VALID reservation created on a slot that already had as many PENDING
\* reservations as its capacity, which are still there
C12_Witness ==
    /\ tx[1].pc = "done" /\ tx[1].op = "create" /\ tx[1].out = "ok"
    /\ tx[1].rid \in ValidOn(db, {tx[1].a.s}, tx[1].a.d)
    /\ Cardinality({r \in PendingOn(db, {tx[1].a.s}, tx[1].a.d) : r < tx[1].rid})
          >= Capacity(tx[1].a.s)

-----------------------------------------------------------------------------
(* The booked match with its players: score submissions and rating tasks *)

\* team seats of users 1 to 4: the creator (user 3) on seat 0; a second
\* seating; a player without a seat
TeamProfiles == {<<1, 2, 0, 3>>, <<2, 3, 0, 1>>, <<1, 2, 0, NULL>>}

\* utilisateur.note of users 1 to 4: all 4.0; rows created without a note;
\* 2.0 and 2.5 against 5.0 and 5.5; 6.9 and 0.6 against 0.5 and 7.0
NoteProfiles ==
    {[u \in Players |-> 4 * RatingUnit],
     [u \in Players |-> DefaultNote],
     <<2 * RatingUnit, 5 * RatingUnit, 5 * (RatingUnit \div 2), 11 * (RatingUnit \div 2)>>,
     <<69 * (RatingUnit \div 10), RatingUnit \div 2, 6 * (RatingUnit \div 10), 7 * RatingUnit>>}

\* the participant rows of reservation 1: the players of the set, seated
MatchParticipants(players, teams) ==
    {[id |-> u, res |-> 1, user |-> u, creator |-> (u = BookedArgs.u),
      state |-> 1, type |-> 1, team |-> teams[u]] : u \in players}

InitMatch ==
    /\ \E teams \in TeamProfiles, notes \in NoteProfiles,
          players \in {Players, Players \ {MatchSize}} :
          db = [BookedDb EXCEPT !.par = MatchParticipants(players, teams),
                                !.note = notes]
    /\ tx = [p \in Procs |-> Idle]
    /\ nextId = 2
    /\ nextPid = MatchSize + 1
    /\ started = EmptyBag
    /\ tasks = <<>>

\* process p serves user p, who submits scores; the rating tasks run beside
NextRated ==
    \/ \E p \in Procs :
          \/ ScoreStart(p, {p}, DOMAIN db.res)
          \/ ScoreLock(p)
          \/ ScoreBody(p, TRUE)
    \/ \E k \in DOMAIN tasks :
          \/ RatingLoad(k)
          \/ RatingUpdate(k)
          \/ RatingThrow(k)

SpecRated == InitMatch /\ [][NextRated]_vars

\* the rating the specification computes from the inputs of matchData
ExpectedRating(matchData) ==
    Clamp(matchData.playerRating,
          lookupW(RatingDifference(matchData))
          * (10000 - getAdjustmentPercentage(matchData.pointsScored))
          * ReliabilitySum(matchData))

\* C13: the rating updatePlayerRatings writes for a player is
\* clamp(Rp + (W - W * pct / 100) * avgRel, 0.5, 7.0), with W = lookupW(X),
\* pct = lookupPct(P) and P the games won by the player's team.
C13_RatingFormula ==
    [][\A k \in DOMAIN tasks :
          tasks[k].pc = "update" /\ tasks'[k] # tasks[k] /\ tasks'[k].pc # "failed" =>
             LET i == tasks[k].i + 1
             IN  db'.note[tasks[k].players[i]] = ExpectedRating(MatchDataOf(tasks[k], i))]_vars

\* C14: every persisted utilisateur.note lies in [0.5, 7.0], from the creation
\* of the user on and after any sequence of rated matches.
C14_NoteInRange ==
    \A u \in Players : db.note[u] >= MinRating /\ db.note[u] <= MaxRating

-----------------------------------------------------------------------------
(* lookupW over the rating differences *)

\* the differences looked up: steps of 0.005 from -3.8 to 3.8
LookupSpan == 760
LookupStep == Hundredth \div 2

InitLookup ==
    /\ db = InitialDb
    /\ \E h \in (0 - LookupSpan)..LookupSpan :
          tx = [p \in Procs |->
                  IF p = 1 THEN [Idle EXCEPT !.pc = "lookup", !.op = "lookupW",
                                             !.a.amt = h * LookupStep]
                  ELSE Idle]
    /\ nextId = 1
    /\ nextPid = 1
    /\ started = EmptyBag
    /\ tasks = <<>>

\* the call lookupW(X): the W found is kept as the result of the call
LookupW(p) ==
    /\ tx[p].pc = "lookup"
    /\ tx' = [tx EXCEPT ![p].pc = "done", ![p].rid = lookupW(tx[p].a.amt),
                        ![p].out = "ok"]
    /\ UNCHANGED <<db, nextId, nextPid, started, tasks>>

NextLookup == LookupW(1)

SpecLookup == InitLookup /\ [][NextLookup]_vars

\* x lies strictly inside the row
StrictlyInside(x, row) == x > row.min * Hundredth /\ x < row.max * Hundredth

\* the i-th row from the bottom of the table
Partner(i) == RATING_DIFF_TABLE[Len(RATING_DIFF_TABLE) + 1 - i]

\* lookupW(X) was called: for x = -X inside a row of the set, it returned the
\* W of the partner of the row, and 0.5 for X = 0
SymmetricOver(rows) ==
    tx[1].op = "lookupW" /\ tx[1].pc = "done" =>
        /\ \A i \in rows :
              StrictlyInside(0 - tx[1].a.amt, RATING_DIFF_TABLE[i]) =>
                 tx[1].rid = Partner(i).W
        /\ tx[1].a.amt = 0 => tx[1].rid = 50

\* the rows whose mirror image lies inside the partner row
SymmetricRows == (1..9) \cup {13, 21}

\* C15 as stated: for every x strictly inside the i-th row from the top,
\* lookupW(-x) is the W of the i-th row from the bottom, and lookupW(0) = 0.5.
C15_Symmetric == SymmetricOver(DOMAIN RATING_DIFF_TABLE)

\* C15 amended: for every x strictly inside one of the rows 1 to 9, 13 or 21
\* from the top, lookupW(-x) is the W of the i-th row from the bottom, and
\* lookupW(0) = 0.5.
C15_SymmetricRows == SymmetricOver(SymmetricRows)

C15_Witness ==
    /\ tx[1].op = "lookupW" /\ tx[1].pc = "done"
    /\ StrictlyInside(0 - tx[1].a.amt, RATING_DIFF_TABLE[8])
    /\ tx[1].rid = 85

-----------------------------------------------------------------------------
(* The rating task beside the score submission *)

\* the set scores and the status a submission stored
SameSets(sc, sd) ==
    /\ sc.s1a = sd.s1a /\ sc.s1b = sd.s1b
    /\ sc.s2a = sd.s2a /\ sc.s2b = sd.s2b

\* C16: updateScore answers success when it starts the rating task, no step
\* of the task (loading, updating, skipping, aborting, throwing) touches the
\* answer of a submission or a reservation, and a CONFIRMED score stays as
\* committed.
C16_RatingNeverSurfaces ==
    [][/\ Len(tasks') > Len(tasks) =>
             \E p \in Procs :
                /\ tx[p].pc = "s_body" /\ tx'[p].pc = "done" /\ tx'[p].out = "ok"
                /\ db'.res[tx[p].a.r].score.status = 1
                /\ SameSets(db'.res[tx[p].a.r].score, Scores[tx[p].a.sc])
                /\ tasks'[Len(tasks')].r = tx[p].a.r
       /\ (\E k \in DOMAIN tasks : tasks'[k] # tasks[k]) =>
             tx' = tx /\ db'.res = db.res
       /\ \A r \in DOMAIN db.res :
             db.res[r].score.status = 1 =>
                r \in DOMAIN db'.res /\ db'.res[r].score = db.res[r].score]_vars

\* a task has thrown, the submission that started it answered success
C16_Witness ==
    \E k \in DOMAIN tasks, p \in Procs :
       /\ tasks[k].pc = "failed"
       /\ tx[p].pc = "done" /\ tx[p].op = "updateScore" /\ tx[p].out = "ok"
       /\ tx[p].a.r = tasks[k].r
       /\ db.res[tasks[k].r].score.status = 1

-----------------------------------------------------------------------------
(* The user update endpoint and the ledger *)

\* creditOperation and creditAmount of the request body
CreditOperations == {"add", "deduct"}
CreditAmounts == {300, 700}
\* no credit is added above this balance
MaxBalance == 2000

UpdateArgs(US) ==
    {[NoArgs EXCEPT !.u = u, !.cop = o, !.amt = m] :
        u \in US, o \in CreditOperations, m \in CreditAmounts}

\* PUT of a user with a credit operation on credit_balance
UserUpdateStart(p, A) ==
    /\ \E a \in A :
          /\ a.cop = "add" => db.bal[a.u] + a.amt <= MaxBalance
          /\ Begin(p, "update", a, "u_find")
    /\ UNCHANGED <<db, nextId, nextPid, started, tasks>>

\* utilisateur.findByPk: the committed row, read without a lock
UserFind(p) ==
    /\ tx[p].pc = "u_find"
    /\ tx' = [tx EXCEPT ![p].a.cur = db.bal[tx[p].a.u], ![p].pc = "u_save"]
    /\ UNCHANGED <<db, nextId, nextPid, started, tasks>>

\* the credit operation on the balance read, then user.update(req.body): the
\* UPDATE waits for a row lock and writes the balance, nothing else
UserSave(p, keep) ==
    LET a == tx[p].a
    IN  /\ tx[p].pc = "u_save"
        /\ UNCHANGED <<nextId, nextPid, started, tasks>>
        /\ IF a.cop = "deduct" /\ a.cur < a.amt
           THEN /\ db' = db
                /\ tx' = [tx EXCEPT ![p] = Finished(p, "insufficient_credit", 0, keep)]
           ELSE /\ CanLock(p, {LockU(a.u)})
                /\ db' = [db EXCEPT !.bal[a.u] =
                             IF a.cop = "add" THEN a.cur + a.amt ELSE a.cur - a.amt]
                /\ tx' = [tx EXCEPT ![p] = Finished(p, "ok", a.u, keep)]

\* process 1 creates and cancels for user 2, process 2 serves the endpoint for
\* the same user
NextCredit ==
    \/ CreateStart(1, CreateArgs({2}, {1}, {FALSE}), MaxRes)
    \/ CreateLockUser(1) \/ CreateLockSlot(1) \/ CreateCheck(1)
    \/ CreateSiblings(1, FALSE) \/ CreatePay(1, Smooth, FALSE) \/ CreateExcess(1, FALSE)
    \/ CancelStart(1, CancelArgs({2}))
    \/ CancelLockReservation(1, {25 * 60}, FALSE)
    \/ CancelLockSlot(1) \/ CancelBody(1, Smooth, FALSE)
    \/ UserUpdateStart(2, UpdateArgs({2}))
    \/ UserFind(2)
    \/ UserSave(2, TRUE)

SpecCredit == Init /\ [][NextCredit]_vars

\* the amounts of the ledger rows of user u
LedgerTotal(v, u) == SumRows(v.led, {row \in Rows(v) : row.u = u})

\* C17: every write of a credit_balance is made together with the ledger rows
\* that account for it: a step changes the balance of a user by what it adds
\* to the user's ledger, and no step changes a balance without a ledger row.
C17_LedgerOnlyMutator ==
    [][\A u \in Users :
          db'.bal[u] # db.bal[u] =>
             /\ db'.led # db.led
             /\ db'.bal[u] - db.bal[u] = LedgerTotal(db', u) - LedgerTotal(db, u)]_vars

-----------------------------------------------------------------------------
(* Concurrent create calls of one user *)

\* requests of user 2, whose balance covers one charge and not two, paid by
\* credit: a private match VALID at once or an open match
FundsArgs ==
    {a \in CreateArgs({2}, {1, 3}, {FALSE}) :
        a.pay = 1 /\ (a.typer = 1 => a.etat = 1)}

\* both processes serve the same user
NextFunds ==
    \E p \in Procs :
        \/ CreateStart(p, FundsArgs, MaxResConc)
        \/ CreateLockUser(p)
        \/ CreateLockSlot(p)
        \/ CreateCheck(p)
        \/ CreateSiblings(p, TRUE)
        \/ CreatePay(p, Smooth, TRUE)
        \/ CreateExcess(p, TRUE)

SpecFunds == Init /\ [][NextFunds]_vars

\* the payment step of process p finds the locked balance below the charge
ChargeNotCovered(p) ==
    /\ tx[p].pc = "c_pay"
    /\ MyView(p).bal[tx[p].a.u] < totalChargeToDeduct(MyView(p), tx[p].a, tx[p].plage)

\* C18: no balance is ever negative: the payment step of a create whose
\* locked balance is below the charge ends the call with insufficient funds
\* and changes nothing, also when two calls of the same user run together.
C18_NoNegativeBalance ==
    [][/\ \A u \in Users : db'.bal[u] >= 0
       /\ \A p \in Procs :
             (ChargeNotCovered(p) /\ tx'[p] # tx[p]) \/ (tx'[p].out = "insufficient_funds"
                                                        /\ tx[p].out # "insufficient_funds") =>
                /\ tx'[p].pc = "done" /\ tx'[p].out = "insufficient_funds"
                /\ ChargeNotCovered(p)
                /\ db' = db]_vars

\* two calls of the user for different slots: one paid, the other
\* refused, the balance debited once
C18_Witness ==
    /\ \A p \in Procs : tx[p].pc = "done" /\ tx[p].op = "create" /\ tx[p].a \in FundsArgs
    /\ tx[1].out = "ok" /\ tx[2].out = "insufficient_funds"
    /\ tx[1].a.s # tx[2].a.s
    /\ nextId = 2
    /\ db.bal[tx[1].a.u] >= 0 /\ db.bal[tx[1].a.u] < InitialBalance(tx[1].a.u)

-----------------------------------------------------------------------------
(* Failures of create and cancel *)

\* create calls, with every failure of the environment, after user 3 booked
\* slot 2
NextFail ==
    \/ CreateStart(1, CreateArgs(Users, Siblings(BookedArgs.s), BOOLEAN), MaxResConc)
    \/ CreateLockUser(1) \/ CreateLockSlot(1) \/ CreateCheck(1)
    \/ CreateSiblings(1, TRUE) \/ CreatePay(1, Rough, TRUE)
    \/ CreateInsertFail(1, TRUE) \/ CreateExcess(1, TRUE) \/ CreateExcessFail(1, TRUE)

SpecFail == InitBooked /\ [][NextFail]_vars

C20_NotificationBestEffort ==
    \A p \in Procs :
        tx[p].op \in {"create", "cancel"} => tx[p].out # "notification_failed"

-----------------------------------------------------------------------------
(* The status of a submitted score *)

\* the status the submission of sd by u is to store over the score sc
StatusAfter(sc, sd, u) ==
    IF sc.status = 0 /\ sc.submitter # u
    THEN IF IdenticalSets(sc, sd) /\ sc.teamwin = determineWinner(SetsOf(sd))
         THEN 1 ELSE 3
    ELSE 0

\* C21: a valid submission on an unlocked reservation stores CONFIRMED iff the
\* status is PENDING, the submitter is not the last one and sets and winner
\* are the stored ones; CONFLICT iff the status is PENDING, the submitter is
\* not the last one and the scores differ; PENDING in every other case; so a
\* score becomes CONFIRMED only over the submission of another submitter.
C21_NewStatus ==
    [][\A p \in Procs :
          tx[p].pc = "s_body" /\ tx'[p].pc = "done" /\ tx'[p].out = "ok" =>
             LET r  == tx[p].a.r
                 sc == db.res[r].score
                 sd == Scores[tx[p].a.sc]
             IN  /\ db'.res[r].score.status = StatusAfter(sc, sd, tx[p].a.u)
                 /\ db'.res[r].score.status = 1 =>
                       sc.status = 0 /\ sc.submitter \notin {NULL, tx[p].a.u}]_vars

\* two submitters with different score sheets: the later one stored CONFLICT
C21_Witness ==
    \E p \in Procs : \E q \in Procs \ {p} :
       /\ tx[p].pc = "done" /\ tx[p].op = "updateScore" /\ tx[p].out = "ok"
       /\ tx[q].pc = "done" /\ tx[q].op = "updateScore" /\ tx[q].out = "ok"
       /\ tx[p].a.r = tx[q].a.r /\ tx[p].a.sc # tx[q].a.sc
       /\ db.res[tx[p].a.r].score.status = 3
       /\ db.res[tx[p].a.r].score.submitter = tx[p].a.u

-----------------------------------------------------------------------------
(* validateSet over the set scores *)

\* the games of a team in the sets looked at: 0 to MaxGames
MaxGames == 13

InitValidate ==
    /\ db = InitialDb
    /\ \E idx \in 0..2, ga \in 0..MaxGames, gb \in 0..MaxGames, stb \in BOOLEAN :
          tx = [p \in Procs |->
                  IF p = 1 THEN [Idle EXCEPT !.pc = "validate", !.op = "validateSet",
                                             !.a.idx = idx, !.a.ga = ga, !.a.gb = gb,
                                             !.a.stb = stb]
                  ELSE Idle]
    /\ nextId = 1
    /\ nextPid = 1
    /\ started = EmptyBag
    /\ tasks = <<>>

\* the call validateSet(setIndex, a, b, isSuperTieBreak) and what it returned
ValidateSet(p) ==
    /\ tx[p].pc = "validate"
    /\ tx' = [tx EXCEPT ![p].pc = "done",
                        ![p].out = IF validateSet(tx[p].a.idx, tx[p].a.ga, tx[p].a.gb,
                                                  tx[p].a.stb)
                                   THEN "true" ELSE "false"]
    /\ UNCHANGED <<db, nextId, nextPid, started, tasks>>

NextValidate == ValidateSet(1)

SpecValidate == InitValidate /\ [][NextValidate]_vars

\* the legal scores of a set
LegalSet(idx, ga, gb, stb) ==
    LET hi == IF ga >= gb THEN ga ELSE gb
        lo == IF ga >= gb THEN gb ELSE ga
    IN  IF idx = 2 /\ stb THEN hi >= 10 /\ hi - lo >= 2
        ELSE (hi = 6 /\ hi - lo >= 2) \/ (hi = 7 /\ lo \in {5, 6})

\* C22: validateSet returns true for exactly the legal set scores: a normal
\* set with max 6 and a difference of 2 or more, or max 7 and min 5 or 6; the
\* third set in super-tiebreak mode with max 10 or more and a difference of 2
\* or more; false for every other pair of non-negative integers.
C22_ValidateSet ==
    tx[1].op = "validateSet" /\ tx[1].pc = "done" =>
        (tx[1].out = "true" <=> LegalSet(tx[1].a.idx, tx[1].a.ga, tx[1].a.gb, tx[1].a.stb))

\* 7-4 as a normal third set: rejected
C22_Witness ==
    /\ tx[1].op = "validateSet" /\ tx[1].pc = "done" /\ tx[1].out = "false"
    /\ tx[1].a.idx = 2 /\ ~tx[1].a.stb /\ tx[1].a.ga = 7 /\ tx[1].a.gb = 4

-----------------------------------------------------------------------------
(* Best of three *)

\* the team that won a set: 1 for team A, 2 for team B
SetWinner(ga, gb) == IF ga > gb THEN 1 ELSE 2

\* sets 1 and 2 of the submission went to different teams
Split(sd) == SetWinner(sd.s1a, sd.s1b) # SetWinner(sd.s2a, sd.s2b)

\* C23: for a submission with legal sets 1 and 2 on an unlocked reservation:
\* when one team won both, the call succeeds, stores that team as winner and
\* null as third set whatever third set was submitted; when they are split
\* 1-1, a submission without a third set fails and changes nothing, and one
\* with a legal third set stores it and its winner as the winner of the match.
C23_BestOfThree ==
    [][\A p \in Procs :
          LET r  == tx[p].a.r
              sd == Scores[tx[p].a.sc]
              sc == db'.res[r].score
          IN  /\ tx[p].pc = "s_body" /\ tx'[p].pc = "done"
              /\ r \in DOMAIN db.res /\ db.res[r].score.status \notin {1, 2}
              /\ LegalSet(0, sd.s1a, sd.s1b, FALSE) /\ LegalSet(1, sd.s2a, sd.s2b, FALSE)
              => IF ~Split(sd)
                 THEN /\ tx'[p].out = "ok"
                      /\ sc.teamwin = SetWinner(sd.s1a, sd.s1b)
                      /\ sc.s3a = NULL /\ sc.s3b = NULL
                 ELSE IF ~sd.has3
                 THEN tx'[p].out = "set3_required" /\ db' = db
                 ELSE LegalSet(2, sd.s3a, sd.s3b, sd.stb) =>
                         /\ tx'[p].out = "ok"
                         /\ sc.teamwin = SetWinner(sd.s3a, sd.s3b)
                         /\ sc.s3a = sd.s3a /\ sc.s3b = sd.s3b]_vars

\* 6-4, 6-4 submitted with a third set: stored without it
C23_Witness ==
    \E p \in Procs :
       /\ tx[p].pc = "done" /\ tx[p].op = "updateScore" /\ tx[p].out = "ok"
       /\ Scores[tx[p].a.sc].has3 /\ ~Split(Scores[tx[p].a.sc])
       /\ db.res[tx[p].a.r].score.submitter = tx[p].a.u
       /\ db.res[tx[p].a.r].score.s3a = NULL
       /\ db.res[tx[p].a.r].score.teamwin = 1

-----------------------------------------------------------------------------
(* The finalize job *)

\* PENDING and last updated more than 24 hours ago
PendingTooLong(row) == row.score.status = 0 /\ row.score.old

\* C24: a run of finalizePendingScores selects exactly the reservations that
\* are PENDING and were last updated more than 24 hours ago, turns them to
\* AUTO_CONFIRMED with their sets and winner as stored, and touches no other
\* reservation; its commit stores just that, so none of them is PENDING after
\* it.
C24_Finalize ==
    [][\A p \in Procs :
          /\ tx[p].pc = "f_lock" /\ tx'[p].pc = "f_commit" =>
                \A r \in DOMAIN db.res :
                   LET row == View(db, tx'[p].wr).res[r]
                   IN  IF PendingTooLong(db.res[r])
                       THEN row = [db.res[r] EXCEPT !.score.status = 2, !.score.old = FALSE]
                       ELSE row = db.res[r]
          /\ tx[p].pc = "f_commit" /\ tx'[p].pc = "done" /\ tx'[p].out = "ok" =>
                /\ DOMAIN db'.res = DOMAIN db.res
                /\ \A r \in DOMAIN db.res :
                      /\ db'.res[r] = View(db, tx[p].wr).res[r]
                      /\ db'.res[r] # db.res[r] =>
                            PendingTooLong(db.res[r]) /\ db'.res[r].score.status = 2]_vars

\* a run committed: the score one player submitted and nobody confirmed within
\* 24 hours is AUTO_CONFIRMED
C24_Witness ==
    \E p \in Procs, r \in DOMAIN db.res :
       /\ tx[p].pc = "done" /\ tx[p].op = "finalizePendingScores" /\ tx[p].out = "ok"
       /\ db.res[r].score.status = 2 /\ db.res[r].score.teamwin # NULL
       /\ CopiesIn(r, started) = 1

-----------------------------------------------------------------------------
(* The inputs of the rating task *)

\* C25: the rating the task writes for each of the four players is computed
\* from the ratings the four players had when the task loaded them, whatever
\* the task has written since.
C25_RatingSnapshot ==
    [][\A k \in DOMAIN tasks :
          tasks[k].pc = "update" /\ tasks'[k] # tasks[k] /\ tasks'[k].pc # "failed" =>
             LET i == tasks[k].i + 1
                 loaded == [tasks[k] EXCEPT !.note = tasks[k].snap]
             IN  db'.note[tasks[k].players[i]] = calculateNewRating(MatchDataOf(loaded, i))]_vars

-----------------------------------------------------------------------------
(* Sibling reassignment *)

\* the slot holds fewer VALID reservations on the date than its capacity
FreeOn(v, s, d) ==
    Cardinality({r \in DOMAIN v.res : /\ v.res[r].slot = s /\ v.res[r].date = d
                                      /\ v.res[r].etat = 1 /\ v.res[r].isCancel = 0})
        < Capacity(s)

\* C26: a create whose requested slot is at capacity on the date goes on with
\* a sibling slot that has free capacity when there is one, and fails with the
\* slot-full error, creating nothing, only when the requested slot and all its
\* siblings are at capacity; the slot of a created reservation had free
\* capacity, and it is the requested one when that had.
C26_SiblingReassignment ==
    [][\A p \in Procs :
          LET a == tx[p].a
          IN  /\ tx[p].pc = "c_sib" /\ tx'[p] # tx[p] =>
                    /\ ~FreeOn(db, a.s, a.d)
                    /\ IF \E x \in Siblings(a.s) : FreeOn(db, x, a.d)
                       THEN /\ tx'[p].pc = "c_pay"
                            /\ tx'[p].plage \in Siblings(a.s) \ {a.s}
                            /\ FreeOn(db, tx'[p].plage, a.d)
                       ELSE tx'[p].pc = "done" /\ tx'[p].out = "slot_full" /\ db' = db
              /\ tx[p].op = "create" /\ tx[p].pc # "done" /\ tx'[p].out = "slot_full" =>
                    /\ \A x \in Siblings(a.s) : ~FreeOn(db, x, a.d)
                    /\ db' = db
              /\ tx[p].op = "create" /\ tx[p].pc # "done"
                 /\ tx'[p].pc = "done" /\ tx'[p].out = "ok" =>
                    LET row == db'.res[tx'[p].rid]
                    IN  /\ tx'[p].rid \notin DOMAIN db.res
                        /\ row.slot \in Siblings(a.s) /\ row.date = a.d
                        /\ FreeOn(db, row.slot, a.d)
                        /\ FreeOn(db, a.s, a.d) => row.slot = a.s]_vars

\* a reservation asked for the booked slot and created on its free sibling
C26_Witness ==
    /\ tx[1].pc = "done" /\ tx[1].op = "create" /\ tx[1].out = "ok"
    /\ tx[1].a.s = BookedArgs.s /\ tx[1].a.d = BookedArgs.d
    /\ db.res[tx[1].rid].slot # tx[1].a.s
    /\ db.res[tx[1].rid].etat = 1 /\ db.res[tx[1].rid].isCancel = 0

-----------------------------------------------------------------------------
(* Excess pending reservations *)

\* C27: the create of a PRIVATE CREDIT reservation cancels the PENDING
\* reservations of the sibling group on the date iff the VALID reservations
\* of the group, the new one included, have reached the sum of the capacities
\* of the sibling slots; below that sum it cancels none.
C27_ExcessPending ==
    [][\A p \in Procs :
          tx[p].pc = "c_excess" /\ tx'[p].pc = "done" /\ tx'[p].out = "ok" =>
             LET row == db'.res[tx'[p].rid]
                 g == Siblings(row.slot)
                 pending == PendingOn(db, g, row.date)
             IN  IF Cardinality(ValidOn(db', g, row.date)) >= SumCapacity(g)
                 THEN \A r \in pending : db'.res[r].isCancel = 1
                 ELSE \A r \in pending : db'.res[r] = db.res[r]]_vars

-----------------------------------------------------------------------------
(* The state of a created reservation *)

\* C28: a create of type PRIVATE (1) with payment by CREDIT (1) that succeeds
\* committed a reservation with etat = 1 and isCancel = 0, which counts among
\* the VALID reservations of its slot on its date.
C28_PrivateCreditValid ==
    [][\A p \in Procs :
          /\ tx[p].op = "create" /\ tx[p].pc # "done"
          /\ tx'[p].pc = "done" /\ tx'[p].out = "ok"
          /\ tx[p].a.typer = 1 /\ tx[p].a.pay = 1
          => LET row == db'.res[tx'[p].rid]
             IN  /\ row.etat = 1 /\ row.isCancel = 0
                 /\ tx'[p].rid \in ValidOn(db', {row.slot}, row.date)]_vars

-----------------------------------------------------------------------------
(* update(id, data) and the open matches *)

\* update(id, data) with a numeric etat in data: the reservation takes the
\* fields of data as they come; the slot flag is written only when data.etat
\* is the string 'valid', which no numeric etat is
update(v, r, etat) == [v EXCEPT !.res[r].etat = etat]

\* a caller runs update(id, data): no transaction and no check of the
\* participants; an unknown id throws
Update(p, ES, keep) ==
    \E r \in 1..MaxRes, etat \in ES :
        /\ tx[p].pc \in {"idle", "done"}
        /\ CanLock(p, {LockR(r)})
        /\ db' = IF r \in DOMAIN db.res THEN update(db, r, etat) ELSE db
        /\ tx' = [tx EXCEPT ![p] =
                    IF keep THEN [Idle EXCEPT !.pc = "done", !.op = "update", !.a.r = r,
                                              !.a.etat = etat, !.rid = r,
                                              !.out = IF r \in DOMAIN db.res THEN "ok"
                                                      ELSE "not_found"]
                    ELSE Idle]
        /\ UNCHANGED <<nextId, nextPid, started, tasks>>

\* one caller at a time who keeps the result of each call: create, update
\* and cancel
NextOpen ==
    \/ CreateStart(1, CreateArgs({1, 2}, {1, 2}, {FALSE}), MaxRes)
    \/ CreateLockUser(1)
    \/ CreateLockSlot(1)
    \/ CreateCheck(1)
    \/ CreateSiblings(1, TRUE)
    \/ CreatePay(1, Smooth, TRUE)
    \/ CreateExcess(1, TRUE)
    \/ Update(1, {0, 1}, TRUE)
    \/ CancelStart(1, CancelArgs({1, 2}))
    \/ CancelLockReservation(1, MinutesAhead, TRUE)
    \/ CancelLockSlot(1)
    \/ CancelBody(1, Smooth, TRUE)

SpecOpen == Init /\ [][NextOpen]_vars

\* C29: no OPEN reservation (typer 2) is VALID (etat = 1, isCancel = 0) with
\* fewer than four participants, whatever create, update and cancel calls
\* came before.
C29_OpenValidHasFour ==
    \A r \in DOMAIN db.res :
        db.res[r].typer = 2 /\ db.res[r].etat = 1 /\ db.res[r].isCancel = 0
            => Cardinality(PartsOf(db, r)) >= 4

\* C30: a reservation with isCancel = 1 has a cancelled etat, -1 or 3, in
\* every reachable state.
C30_CancelledEtat ==
    \A r \in DOMAIN db.res :
        db.res[r].isCancel = 1 => db.res[r].etat \in {0 - 1, 3}

-----------------------------------------------------------------------------
(* A participant who is not the creator leaves *)

\* what a participant cancel owes the canceller: nothing when the seat was
\* not paid or no debit is found, else the amount of one of the debits
LeaverRefunds(v, r, u) ==
    IF PaidWithDebit(v, r, {q \in PartsOf(v, r) : q.user = u}) = {}
    THEN {0}
    ELSE {0 - row.amt : row \in DebitsOf(v, u, r)}

\* C31: a cancel by a participant who is not the creator refunds only the
\* canceller (the amount of their debit, if they paid) and deletes only their
\* participant row; the balances and rows of the other users and the other
\* reservations are unchanged, the reservation is not cancelled, and when it
\* was VALID and fewer than 4 participants remain it goes back to etat 0 with
\* the slot available.
C31_ParticipantLeaves ==
    [][\A p \in Procs :
          LET a == tx[p].a
              r == a.r
              u == a.u
          IN  /\ tx[p].pc = "k_body" /\ tx'[p].pc # "k_body"
              /\ ~isCancellerCreator(db, r, u)
              /\ db' # db
              => /\ db'.par = db.par \ {q \in db.par : q.res = r /\ q.user = u}
                 /\ \A x \in Users \ {u} : db'.bal[x] = db.bal[x]
                 /\ db'.bal[u] - db.bal[u] \in LeaverRefunds(db, r, u)
                 /\ \A x \in DOMAIN db.res \ {r} : db'.res[x] = db.res[x]
                 /\ db'.res[r].isCancel = 0
                 /\ IF db.res[r].etat = 1 /\ Cardinality(PartsOf(db', r)) < 4
                    THEN db'.res[r].etat = 0 /\ db'.dispo[db.res[r].slot]
                    ELSE db'.res[r].etat = db.res[r].etat /\ db'.dispo = db.dispo]_vars

\* a participant who paid has left a private match that its creator paid by
\* credit, VALID since its creation: the refund is in the ledger, the seat is
\* gone, the creator still holds theirs and the match is back to pending
C31_Witness ==
    \E r \in DOMAIN db.res, u \in Users :
        /\ \E row \in Rows(db) : row.u = u /\ row.key = RefundCancelKey(r)
        /\ db.res[r].isCancel = 0 /\ db.res[r].etat = 0
        /\ db.res[r].typer = 1
        /\ \E q \in PartsOf(db, r) : q.creator /\ DebitsOf(db, q.user, r) # {}
        /\ \A q \in PartsOf(db, r) : q.user # u
        /\ db.dispo[db.res[r].slot]

-----------------------------------------------------------------------------
(* The charge of create *)

\* the user holds a seat in a non-cancelled reservation of the date
BookedOn(v, u, d) ==
    \E q \in v.par : q.user = u /\ v.res[q.res].date = d /\ v.res[q.res].isCancel = 0

\* the effective charge of a request: nothing for a private match paid on
\* site (payment channel 2, or a request for etat 0); else the unit price,
\* less 300 for the tiers 1 to 3 and free for tier 4 on the first match of
\* the date, plus three unit prices when the creator pays for all
EffectiveCharge(v, a, unit) ==
    IF a.typer = 1 /\ (a.pay = 2 \/ a.etat = 0) THEN 0
    ELSE (CASE Membership(a.u) = 4 /\ ~BookedOn(v, a.u, a.d) -> 0
            [] Membership(a.u) \in {1, 2, 3} -> Max2(unit - 300, 0)
            [] OTHER -> unit)
         + (IF a.pfa THEN 3 * unit ELSE 0)

\* C32: the payment step of a create that goes on to insert takes the
\* effective charge of the request from the balance of the creator, and
\* from no other balance.
C32_CreatorCharge ==
    [][\A p \in Procs :
          LET a == tx[p].a
              v == MyView(p)
              w == View(db', tx'[p].wr)
          IN  /\ tx[p].pc = "c_pay"
              /\ \/ tx'[p].pc = "c_excess"
                 \/ tx'[p].pc = "done" /\ tx'[p].out = "ok"
              => /\ v.bal[a.u] - w.bal[a.u] = EffectiveCharge(v, a, Price(tx[p].plage))
                 /\ \A x \in Users \ {a.u} : w.bal[x] = v.bal[x]]_vars

\* the INFINITY member has paid the full price for a second match of the date
\* after a free first one that still stands
C32_Witness ==
    /\ \E u \in Users, r1, r2 \in DOMAIN db.res :
           /\ Membership(u) = 4 /\ r1 # r2
           /\ db.res[r1].user = u /\ db.res[r2].user = u
           /\ db.res[r1].isCancel = 0
           /\ DebitsOf(db, u, r1) = {}
           /\ \E row \in DebitsOf(db, u, r2) : row.amt = 0 - UnitPrice
    /\ tx[1].op = "create" /\ tx[1].pc = "done" /\ tx[1].out = "ok"

-----------------------------------------------------------------------------
(* What handleValidMatchCreated cancels *)

\* C33: a run of handleValidMatchCreated for a VALID reservation changes only
\* other VALID reservations of its sibling group on its date, and cancels
\* them: OPEN ones only when the new reservation is OPEN, of any type when it
\* is PRIVATE; no PENDING reservation and not the new one.
C33_CancelsOnlyValid ==
    [][tx[1].pc = "idle" /\ tx'[1].pc = "idle" /\ db' # db =>
          \E newId \in DOMAIN db.res :
             /\ db.res[newId].etat = 1 /\ db.res[newId].isCancel = 0
             /\ db'.res[newId] = db.res[newId]
             /\ \A r \in DOMAIN db.res :
                   IF /\ r # newId
                      /\ db.res[r].etat = 1 /\ db.res[r].isCancel = 0
                      /\ db.res[r].slot \in Siblings(db.res[newId].slot)
                      /\ db.res[r].date = db.res[newId].date
                      /\ (db.res[newId].typer = 2 => db.res[r].typer = 2)
                   THEN db'.res[r].isCancel = 1
                   ELSE /\ db'.res[r] = db.res[r]
                        /\ PartsOf(db', r) = PartsOf(db, r)]_vars

\* a VALID open match stands next to an open match of its sibling group that
\* was cancelled with etat -1
C33_Witness ==
    \E r1, r2 \in DOMAIN db.res :
        /\ r1 # r2
        /\ db.res[r1].typer = 2 /\ db.res[r1].etat = 1 /\ db.res[r1].isCancel = 0
        /\ db.res[r2].typer = 2 /\ db.res[r2].etat = 0 - 1 /\ db.res[r2].isCancel = 1
        /\ db.res[r2].slot \in Siblings(db.res[r1].slot)
        /\ db.res[r2].date = db.res[r1].date

-----------------------------------------------------------------------------
(* The order of the slot locks *)

\* p waits for a plage_horaire row that q has locked
WaitsForSlot(p, q) == \E s \in Slots : LockS(s) \in Wants(p) \cap tx[q].locks

\* C34: no two concurrent create calls wait for each other on slot row locks.
C34_NoSlotDeadlock ==
    \A p \in Procs : \A q \in Procs \ {p} :
        tx[p].op = "create" /\ tx[q].op = "create" =>
            ~(WaitsForSlot(p, q) /\ WaitsForSlot(q, p))

-----------------------------------------------------------------------------
(* Refunds against debits *)

\* C35: for each reservation and user, the refunds in the ledger never exceed
\* the debits: the rows of the pair sum to 0 or less, so a user without a
\* debit for the reservation has no refund for it.
C35_RefundWithinDebit ==
    \A u \in Users, r \in DOMAIN db.res :
        SumRows(db.led, RefundRows(db, u, r) \cup DebitsOf(db, u, r)) <= 0

-----------------------------------------------------------------------------
(* calculateNewReliability *)

\* a reliability of 1.0; reliabilities are kept in ten-thousandths
RelUnit == 10000

\* the sums of two ratings the function is called with, in whole ratings
RatingSums == {1, 4, 7, 10, 14}
\* the reliabilities of the other three players
OtherReliabilities == {0, 50, RelUnit \div 2, RelUnit}
\* the current reliabilities: 0 to 1 in steps of 0.05
ReliabilityStep == RelUnit \div 20

\* Math.pow(10, k / 40) in ten-thousandths, rounded, for k from -13 to 13:
\* the exponent (avgLoser - avgWinner) / 20 of two sums that differ by k
Pow10Table ==
    <<4732, 5012, 5309, 5623, 5957, 6310, 6683, 7079, 7499,
      7943, 8414, 8913, 9441, 10000, 10593, 11220, 11885, 12589,
      13335, 14125, 14962, 15849, 16788, 17783, 18836, 19953, 21135>>
Pow10(k) == Pow10Table[k + 14]

\* the integer part of Math.sqrt(n)
ISqrt(n) == CHOOSE x \in 0..n : x * x <= n /\ (x + 1) * (x + 1) > n

\* a result that is not clamped
ClampUnit_Off(x) == x
\* clamp between 0 and 1
ClampUnit(x) == IF x > RelUnit THEN RelUnit ELSE IF x < 0 THEN 0 ELSE x

\* calculateNewReliability(matchData): RE and H in ten-thousandths,
\* 1 / sqrt(H) in hundredths, beta = 0.1
calculateNewReliability(matchData) ==
    LET RE == (RelUnit * RelUnit)
                 \div (RelUnit + Pow10(matchData.loserTeamRatingSum
                                      - matchData.winnerTeamRatingSum))
        H  == Max2(RelUnit \div 100, ReliabilitySum(matchData) \div 3)
        term3 == RelUnit \div ISqrt(H)
        reliabilityChange == (RE * term3) \div (10 * 100)
    IN  ClampUnit(matchData.playerReliability + reliabilityChange)

InitReliability ==
    /\ db = InitialDb
    /\ \E f \in 0..20, ft \in OtherReliabilities, fa \in OtherReliabilities,
          fb \in OtherReliabilities, w \in RatingSums, l \in RatingSums :
          tx = [p \in Procs |->
                  IF p = 1
                  THEN [Idle EXCEPT !.pc = "reliability", !.op = "calculateNewReliability",
                            !.a.md = [playerReliability |-> f * ReliabilityStep,
                                      teammateReliability |-> ft,
                                      adversary1Reliability |-> fa,
                                      adversary2Reliability |-> fb,
                                      winnerTeamRatingSum |-> w,
                                      loserTeamRatingSum |-> l]]
                  ELSE Idle]
    /\ nextId = 1
    /\ nextPid = 1
    /\ started = EmptyBag
    /\ tasks = <<>>

\* the call calculateNewReliability(matchData): the result is kept
CalculateNewReliability(p) ==
    /\ tx[p].pc = "reliability"
    /\ tx' = [tx EXCEPT ![p].pc = "done", ![p].rid = calculateNewReliability(tx[p].a.md),
                        ![p].out = "ok"]
    /\ UNCHANGED <<db, nextId, nextPid, started, tasks>>

NextReliability == CalculateNewReliability(1)

SpecReliability == InitReliability /\ [][NextReliability]_vars

\* C36: for every current reliability from 0 to 1 the new reliability is
\* between 0 and 1 and not below the current one; with equal team ratings
\* (RE = 0.5) and three other players of reliability 0 (H = 0.01) it is the
\* current one plus 0.5, at most 1.
C36_Reliability ==
    tx[1].op = "calculateNewReliability" /\ tx[1].pc = "done" =>
        LET md == tx[1].a.md
        IN  /\ tx[1].rid \in 0..RelUnit
            /\ tx[1].rid >= md.playerReliability
            /\ (ReliabilitySum(md) = 0 /\ md.winnerTeamRatingSum = md.loserTeamRatingSum
                   => tx[1].rid = Min2(RelUnit, md.playerReliability + RelUnit \div 2))

\* a reliability near 1 that the change would carry past 1 came back as 1
C36_Witness ==
    /\ tx[1].op = "calculateNewReliability" /\ tx[1].pc = "done"
    /\ tx[1].a.md.playerReliability = 19 * ReliabilityStep
    /\ tx[1].a.md.teammateReliability = 50
    /\ tx[1].rid = RelUnit

-----------------------------------------------------------------------------
(* cancel on a cancelled reservation *)

\* user 1 creates through process 1 and cancels, in time, through every
\* process; the result of each call is kept
NextCancel ==
    \/ CreateStart(1, ConcArgs(1), MaxRes)
    \/ CreateLockUser(1)
    \/ CreateLockSlot(1)
    \/ CreateCheck(1)
    \/ CreateSiblings(1, TRUE)
    \/ CreatePay(1, Smooth, TRUE)
    \/ CreateExcess(1, TRUE)
    \/ \E p \in Procs :
          \/ CancelStart(p, CancelArgs({1}))
          \/ CancelLockReservation(p, {25 * 60}, TRUE)
          \/ CancelLockSlot(p)
          \/ CancelBody(p, Smooth, TRUE)
          \/ DeadlockAbort(p, TRUE)

SpecCancel == Init /\ [][NextCancel]_vars

\* C37: a cancel call that finds the reservation cancelled (isCancel = 1),
\* after another call or while racing one, returns the reservation and
\* changes no balance, ledger row, reservation, participant or slot.
C37_CancelIdempotent ==
    [][\A p \in Procs :
          /\ tx[p].op = "cancel" /\ tx[p].pc \in {"k_res", "k_slot", "k_body"}
          /\ tx[p].a.r \in DOMAIN db.res /\ db.res[tx[p].a.r].isCancel = 1
          /\ tx'[p] # tx[p]
          => /\ db' = db
             /\ tx'[p].pc = "done" /\ tx'[p].out = "already_cancelled"]_vars

\* two cancel calls of the creator for one reservation, paid by credit, have
\* both returned: one cancelled it, the other found it cancelled
C37_Witness ==
    \E p \in Procs : \E q \in Procs \ {p} :
        /\ tx[p].op = "cancel" /\ tx[p].pc = "done" /\ tx[p].out = "ok"
        /\ tx[q].op = "cancel" /\ tx[q].pc = "done" /\ tx[q].out = "already_cancelled"
        /\ tx[q].a.r = tx[p].a.r /\ tx[q].a.u = tx[p].a.u
        /\ db.res[tx[p].a.r].isCancel = 1
        /\ DebitsOf(db, tx[p].a.u, tx[p].a.r) # {}

-----------------------------------------------------------------------------
(* How often the rating task starts *)

\* C38: updatePlayerRatings has been started at most once for each
\* reservation, and only for a reservation whose committed score_status is
\* CONFIRMED (1) or AUTO_CONFIRMED (2).
C38_RatingOnce ==
    \A r \in DOMAIN db.res :
        /\ CopiesIn(r, started) <= 1
        /\ CopiesIn(r, started) > 0 => db.res[r].score.status \in {1, 2}

-----------------------------------------------------------------------------
(* The participants of a cancelled reservation *)

\* C39: a reservation with isCancel = 1 has no participant row.
C39_CancelledHasNoParticipants ==
    \A r \in DOMAIN db.res : db.res[r].isCancel = 1 => PartsOf(db, r) = {}

-----------------------------------------------------------------------------
(* lookupW along the grid *)

\* C40: lookupW does not increase with the rating difference: on the grid of
\* 0.005, the W of every larger difference is at most the W found for X.
C40_LookupMonotone ==
    tx[1].op = "lookupW" /\ tx[1].pc = "done" =>
        \A h \in (0 - LookupSpan)..LookupSpan :
            h * LookupStep > tx[1].a.amt => lookupW(h * LookupStep) <= tx[1].rid

====
